---------------------------- MODULE Spec2Model ----------------------------
(***************************************************************************)
(* Model of meteor_auto: the capture scheduler (scheduler.py) with its     *)
(* file lock, and the capture executor (runner.py) with its per-satellite  *)
(* fallback counters.                                                      *)
(*                                                                         *)
(* A job body (capture_job) runs in a worker thread of its scheduler, and  *)
(* two PassScheduler instances are two processes: the steps of different   *)
(* job bodies interleave at every file-system operation on capture.lock.   *)
(* Time is in seconds.  File-system operations on the lock marker fail     *)
(* only when the marker is missing (the race the code's except clauses     *)
(* catch); the disk itself is taken to work.                               *)
(***************************************************************************)
EXTENDS Integers, Sequences, FiniteSets, TLC

(* ----------------------------- bounds ---------------------------------- *)
\* jobs armed over all schedulers in a run of Spec
MaxJobs == 2
\* direct capture_pass calls in a run of SpecRunner
MaxAttempts == 3
\* clock advances in a run of Spec
MaxTicks == 2
\* _record_failure / _record_success calls in a run of SpecTracker
MaxCalls == 5
\* the short clock advance, in seconds
ShortStep == 60
\* characters in a satellite name given to the job identity
MaxNameLen == 2
\* entries of a catalog handed to a selection
MaxCatalog == 3
\* passes find_passes returns to list-passes
MaxListed == 2
\* capture_pass calls of a caller that repeats events
MaxReruns == 2
\* lines of a catalog text
MaxLines == 6
\* backoff_attempts of a fetch_tles call
MaxBackoff == 3

(* ------------------------ program constants ---------------------------- *)
\* scheduler.py:34  age_hours > 4
StaleHours == 4
\* scheduler.py:33  / 3600
SecPerHour == 3600
\* scheduler.py:65  timedelta(seconds=120)
PreRollSec == 120
\* runner.py:37  failures >= 2
FallbackThreshold == 2
\* runner.py:57  duration_sec + 120 + 60
PreMarginSec == 120
PostMarginSec == 60
\* runner.py:110  duration_sec + 300
SafetyMarginSec == 300
\* config.py:19-20
PrimaryHz == 137900000
BackupHz == 137100000
\* config.py:25-26
PrimaryPipeline == "meteor_m2-x_lrpt"
FallbackPipeline == "meteor_m2-x_lrpt_80k"

(* --------------------------- input sets -------------------------------- *)
\* PassScheduler instances (processes) sharing one capture.lock path
Scheds == {1, 2}
\* satellite names, as character sequences
Sats == {<<"A">>, <<"B">>}
\* duration_sec of the modelled pass events
Durations == {600}
AosValues == {PreRollSec, PreRollSec + ShortStep}
EventPool == [sat : Sats, aos : AosValues, dur : Durations]

MaxIdx == IF MaxJobs > MaxAttempts THEN MaxJobs ELSE MaxAttempts
JobIds == Scheds \X (1..MaxIdx)
\* writer of a marker left behind by an earlier process
Foreign == <<0, 0>>

SortedByAos(l) == \A i \in 1..Len(l), k \in 1..Len(l) : i < k => l[i].aos <= l[k].aos
Distinct(l) == \A i \in 1..Len(l), k \in 1..Len(l) : i # k => l[i] # l[k]
\* event sequences as find_passes returns them: sorted by aos, no event twice
PassLists(n) ==
  { l \in UNION { [1..k -> EventPool] : k \in 0..n } : SortedByAos(l) /\ Distinct(l) }

VARIABLES
  now,       \* wall clock, seconds
  lock,      \* the capture.lock marker file
  passes,    \* per scheduler: the events handed to schedule_passes
  phase,     \* per scheduler: "new", "running", "stopped", "returned"
  mode,      \* per scheduler: "none", "dry", "real" (the dry_run argument)
  dryLog,    \* per scheduler: the events reported by "[DRY-RUN] Would schedule"
  pc,        \* per job: position of the job body
  age,       \* per job: local age of the marker computed in _is_locked, seconds
  avail,     \* per job: result of _check_satdump_available
  cmd,       \* per job: the command built by _build_satdump_cmd
  tool,      \* per job: how the subprocess ended
  ret,       \* per job: what capture_pass returned
  fallback,  \* per scheduler: runner._fallback_state
  outdirs,   \* output directories and the file kinds each holds
  attempts,  \* per scheduler: history of finished capture_pass calls
  ticks,     \* clock advances so far
  launched,  \* per job: the instant subprocess.run was called
  query,     \* the arguments of a find_passes call, with the sampled elevations
  found,     \* what find_passes returned
  ask,       \* the function of tle.py, scheduler.py or cli.py called, with its arguments
  answer,    \* what that function returned
  cacheFile, \* the cached catalog file weather.tle
  fetch      \* position and locals of a fetch_tles call

vars == <<now, lock, passes, phase, mode, dryLog, pc, age, avail, cmd, tool,
          ret, fallback, outdirs, attempts, ticks, launched, query, found, ask,
          answer, cacheFile, fetch>>

\* the variables of the catalog functions and of the functions called alone
catalogVars == <<ask, answer, cacheFile, fetch>>

\* the variables of the scheduler and the executor
captureVars == <<now, lock, passes, phase, mode, dryLog, pc, age, avail, cmd, tool,
                 ret, fallback, outdirs, attempts, ticks, launched>>

SchedOf(j) == j[1]
EventOf(j) == passes[j[1]][j[2]]
JobsOf(s) == { j \in JobIds : j[1] = s /\ j[2] <= Len(passes[s]) }

NoFile == [exists |-> FALSE, mtime |-> 0, owner |-> Foreign]
Marker(t, j) == [exists |-> TRUE, mtime |-> t, owner |-> j]
NoCmd == [pipeline |-> "", frequency |-> 0, timeout |-> 0, wall |-> 0]
NoTool == [kind |-> "none", rc |-> 0]
EmptyMap == [x \in {} |-> 0]


(* ------------------- runner.py: pure helper functions ------------------ *)
\* _fallback_state.get(satellite_name, 0)
Failures(fs, sat) == IF sat \in DOMAIN fs THEN fs[sat] ELSE 0

ShouldUseFallback(fs, sat) == Failures(fs, sat) >= FallbackThreshold

RecordFailure(fs, sat) ==
  [x \in DOMAIN fs \cup {sat} |-> IF x = sat THEN Failures(fs, sat) + 1 ELSE fs[x]]

\* faulty variant: a success takes one failure off instead of clearing the counter
RecordSuccessDecrement(fs, sat) ==
  [x \in { y \in DOMAIN fs : y # sat \/ fs[y] > 1 } |-> IF x = sat THEN fs[x] - 1 ELSE fs[x]]
\* faulty variant: a success clears the counters of all satellites
RecordSuccessClearAll(fs, sat) == [x \in {} |-> 0]
RecordSuccess(fs, sat) == [x \in DOMAIN fs \ {sat} |-> fs[x]]

\* satellite_name.replace(" ", "_").replace("/", "_")
SanitizeName(n) == [i \in 1..Len(n) |-> IF n[i] \in {" ", "/"} THEN "_" ELSE n[i]]

\* f"{timestamp}_{sat_name}"; e.aos is the whole seconds of the instant, which
\* is all that the "%Y%m%d_%H%M%S" timestamp renders: the microseconds of an
\* instant (field usec of the events that carry one) are not in the name
OutputDirName(e) == <<e.aos, SanitizeName(e.sat)>>

\* ensure_dir: mkdir(parents=True, exist_ok=True) keeps an existing directory
EnsureDir(dirs, d) == IF d \in DOMAIN dirs THEN dirs ELSE dirs @@ (d :> {})

\* faulty variant: subprocess.run is given less time than the tool
BuildSatdumpCmdShortWall(fs, e) ==
  [ pipeline  |-> IF ShouldUseFallback(fs, e.sat) THEN FallbackPipeline ELSE PrimaryPipeline,
    frequency |-> IF ShouldUseFallback(fs, e.sat) THEN BackupHz ELSE PrimaryHz,
    timeout   |-> e.dur + PreMarginSec + PostMarginSec,
    wall      |-> e.dur + PreMarginSec ]
\* faulty variant: the fallback frequency with the primary pipeline
BuildSatdumpCmdMixed(fs, e) ==
  [ pipeline  |-> PrimaryPipeline,
    frequency |-> IF ShouldUseFallback(fs, e.sat) THEN BackupHz ELSE PrimaryHz,
    timeout   |-> e.dur + PreMarginSec + PostMarginSec,
    wall      |-> e.dur + SafetyMarginSec ]
\* faulty variant: subprocess.run is given the staleness limit on top of the
\* pass
BuildSatdumpCmdNoWall(fs, e) ==
  [ pipeline  |-> IF ShouldUseFallback(fs, e.sat) THEN FallbackPipeline ELSE PrimaryPipeline,
    frequency |-> IF ShouldUseFallback(fs, e.sat) THEN BackupHz ELSE PrimaryHz,
    timeout   |-> e.dur + PreMarginSec + PostMarginSec,
    wall      |-> e.dur + StaleHours * SecPerHour ]
BuildSatdumpCmd(fs, e) ==
  [ pipeline  |-> IF ShouldUseFallback(fs, e.sat) THEN FallbackPipeline ELSE PrimaryPipeline,
    frequency |-> IF ShouldUseFallback(fs, e.sat) THEN BackupHz ELSE PrimaryHz,
    timeout   |-> e.dur + PreMarginSec + PostMarginSec,
    wall      |-> e.dur + SafetyMarginSec ]

\* the extensions globbed by _check_capture_success
Patterns == {"png", "jpg", "jpeg", "lrpt", "cadu"}
\* kinds of file the tool may leave in its working directory
FileKinds == Patterns \cup {"log"}
\* what one tool run writes: nothing, or one file of some kind
ToolOutputs == {{}} \cup { {k} : k \in FileKinds }

CheckCaptureSuccess(files) == \E p \in Patterns : p \in files

\* how subprocess.run ends: an exit code, TimeoutExpired, or a launch error
ToolEndings ==
  { [kind |-> "exit", rc |-> 0], [kind |-> "exit", rc |-> 1],
    [kind |-> "timeout", rc |-> 0], [kind |-> "error", rc |-> 0] }

\* the tool runs of SpecRunner: exit code 0 with every output; the other
\* endings with nothing or an image written (a tool that could not be
\* launched has written nothing)
AllToolRuns ==
  { r \in ToolEndings \X ToolOutputs :
      /\ r[1].kind = "error" => r[2] = {}
      /\ ~(r[1].kind = "exit" /\ r[1].rc = 0) => r[2] \in {{}, {"png"}} }
\* the tool runs of Spec: a good capture and a failed one
JobToolRuns == { <<[kind |-> "exit", rc |-> 0], {"png"}>>, <<[kind |-> "exit", rc |-> 1], {}>> }

\* number of failed attempts for sat at the end of history h, back to its
\* last success; attempts of other satellites and attempts that never
\* reached the tool ("env", "raised") are passed over
RECURSIVE ConsecFailures(_, _)
ConsecFailures(h, sat) ==
  IF h = <<>> THEN 0
  ELSE LET last == h[Len(h)]
           rest == SubSeq(h, 1, Len(h) - 1)
       IN  IF last[1] # sat \/ last[2] \in {"env", "raised"} THEN ConsecFailures(rest, sat)
           ELSE IF last[2] = "ok" THEN 0
           ELSE 1 + ConsecFailures(rest, sat)

(* ------------------- scheduler.py: the lock's staleness ---------------- *)
StaleSec == StaleHours * SecPerHour
\* faulty variants: the comparison off by one; the threshold an hour late
IsStaleAtFour(a) == a >= StaleSec
IsStaleLate(a) == a > StaleSec + SecPerHour
\* age_hours > 4, with age_hours = age / 3600
IsStale(a) == a > StaleSec

(* ------------------------------ time ----------------------------------- *)
Tick(d) ==
  /\ ticks < MaxTicks
  /\ now' = now + d
  /\ ticks' = ticks + 1
  /\ UNCHANGED <<catalogVars, launched, query, found, lock, passes, phase, mode, dryLog, pc, age, avail, cmd, tool,
                 ret, fallback, outdirs, attempts>>

(* ------------------ scheduler.py: schedule_passes ---------------------- *)
\* faulty variant: with dry_run = False the trigger loop is started on no job
ScheduleNothingStarts(s) ==
  /\ phase[s] = "new"
  /\ passes[s] = <<>>
  /\ \E dry \in BOOLEAN :
       /\ mode' = [mode EXCEPT ![s] = IF dry THEN "dry" ELSE "real"]
       /\ phase' = [phase EXCEPT ![s] = IF dry THEN "returned" ELSE "running"]
  /\ UNCHANGED <<catalogVars, launched, query, found, now, lock, passes, dryLog, pc, age, avail, cmd, tool, ret,
                 fallback, outdirs, attempts, ticks>>
\* "if not passes: return"
ScheduleNothing(s) ==
  /\ phase[s] = "new"
  /\ passes[s] = <<>>
  /\ \E dry \in BOOLEAN : mode' = [mode EXCEPT ![s] = IF dry THEN "dry" ELSE "real"]
  /\ phase' = [phase EXCEPT ![s] = "returned"]
  /\ UNCHANGED <<catalogVars, launched, query, found, now, lock, passes, dryLog, pc, age, avail, cmd, tool, ret,
                 fallback, outdirs, attempts, ticks>>

\* faulty variant: the dry run arms the jobs and starts the trigger loop all the same
ScheduleDryRunArms(s) ==
  /\ phase[s] = "new"
  /\ passes[s] # <<>>
  /\ mode' = [mode EXCEPT ![s] = "dry"]
  /\ dryLog' = [dryLog EXCEPT ![s] = passes[s]]
  /\ pc' = [j \in JobIds |-> IF j[1] = s /\ j[2] <= Len(passes[s]) THEN "armed" ELSE pc[j]]
  /\ phase' = [phase EXCEPT ![s] = "running"]
  /\ UNCHANGED <<catalogVars, launched, query, found, now, lock, passes, age, avail, cmd, tool, ret, fallback,
                 outdirs, attempts, ticks>>
\* dry_run = True: one "[DRY-RUN] Would schedule" line per event, then return
ScheduleDryRun(s) ==
  /\ phase[s] = "new"
  /\ passes[s] # <<>>
  /\ mode' = [mode EXCEPT ![s] = "dry"]
  /\ dryLog' = [dryLog EXCEPT ![s] = passes[s]]
  /\ phase' = [phase EXCEPT ![s] = "returned"]
  /\ UNCHANGED <<catalogVars, launched, query, found, now, lock, passes, pc, age, avail, cmd, tool, ret, fallback,
                 outdirs, attempts, ticks>>

\* dry_run = False: _schedule_capture adds one DateTrigger job per event,
\* then scheduler.start() blocks in the trigger loop
ScheduleAndStart(s) ==
  /\ phase[s] = "new"
  /\ passes[s] # <<>>
  /\ mode' = [mode EXCEPT ![s] = "real"]
  /\ pc' = [j \in JobIds |-> IF j \in JobsOf(s) THEN "armed" ELSE pc[j]]
  /\ phase' = [phase EXCEPT ![s] = "running"]
  /\ UNCHANGED <<catalogVars, launched, query, found, now, lock, passes, dryLog, age, avail, cmd, tool, ret, fallback,
                 outdirs, attempts, ticks>>

\* faulty variant: shutdown runs the jobs that are pending
InterruptRunsPending(s) ==
  /\ phase[s] = "running"
  /\ phase' = [phase EXCEPT ![s] = "stopped"]
  /\ pc' = [j \in JobIds |-> IF j[1] = s /\ pc[j] = "armed" THEN "exists" ELSE pc[j]]
  /\ UNCHANGED <<catalogVars, launched, query, found, now, lock, passes, mode, dryLog, age, avail,
                 cmd, tool, ret, fallback, outdirs, attempts, ticks>>
\* KeyboardInterrupt in the trigger loop: scheduler.shutdown() drops the
\* jobs that have not fired and waits for the job bodies that are running
Interrupt(s) ==
  /\ phase[s] = "running"
  /\ phase' = [phase EXCEPT ![s] = "stopped"]
  /\ pc' = [j \in JobIds |-> IF j \in JobsOf(s) /\ pc[j] = "armed" THEN "abandoned" ELSE pc[j]]
  /\ UNCHANGED <<catalogVars, launched, query, found, now, lock, passes, mode, dryLog, age, avail, cmd, tool, ret,
                 fallback, outdirs, attempts, ticks>>

JobEnded(j) == pc[j] \in {"none", "abandoned", "skipped", "done"}

\* shutdown() returns once the running job bodies have ended
ShutdownReturns(s) ==
  /\ phase[s] = "stopped"
  /\ \A j \in JobsOf(s) : JobEnded(j)
  /\ phase' = [phase EXCEPT ![s] = "returned"]
  /\ UNCHANGED <<catalogVars, launched, query, found, now, lock, passes, mode, dryLog, pc, age, avail, cmd, tool, ret,
                 fallback, outdirs, attempts, ticks>>

TriggerTime(e) == e.aos - PreRollSec

\* faulty variant: a job that was skipped is fired again
FireJobRetry(j) ==
  /\ j[2] <= Len(passes[j[1]])
  /\ phase[j[1]] = "running"
  /\ pc[j] \in {"armed", "skipped"}
  /\ now >= passes[j[1]][j[2]].aos - PreRollSec
  /\ pc' = [pc EXCEPT ![j] = "exists"]
  /\ UNCHANGED <<catalogVars, launched, query, found, now, lock, passes, phase, mode, dryLog, age, avail, cmd, tool,
                 ret, fallback, outdirs, attempts, ticks>>
\* faulty variant: a job is started without regard to its run_date
FireJobEarly(j) ==
  /\ j[2] <= Len(passes[j[1]])
  /\ phase[j[1]] = "running"
  /\ pc[j] = "armed"
  /\ pc' = [pc EXCEPT ![j] = "exists"]
  /\ UNCHANGED <<catalogVars, launched, query, found, now, lock, passes, phase, mode, dryLog, age, avail, cmd, tool,
                 ret, fallback, outdirs, attempts, ticks>>
\* the DateTrigger of job j is due: its body starts in a worker thread
FireJob(j) ==
  /\ j \in JobsOf(SchedOf(j))
  /\ phase[SchedOf(j)] = "running"
  /\ pc[j] = "armed"
  /\ now >= TriggerTime(EventOf(j))
  /\ pc' = [pc EXCEPT ![j] = "exists"]
  /\ UNCHANGED <<catalogVars, launched, query, found, now, lock, passes, phase, mode, dryLog, age, avail, cmd, tool,
                 ret, fallback, outdirs, attempts, ticks>>

(* ------------- scheduler.py: _is_locked, _acquire_lock ----------------- *)
\* _is_locked: "if not self.lock_file.exists(): return False"
LockExists(j) ==
  /\ pc[j] = "exists"
  /\ pc' = [pc EXCEPT ![j] = IF lock.exists THEN "stat" ELSE "write"]
  /\ UNCHANGED <<catalogVars, launched, query, found, now, lock, passes, phase, mode, dryLog, age, avail, cmd, tool,
                 ret, fallback, outdirs, attempts, ticks>>

\* _is_locked: stat() the marker and compare its age; a marker that vanished
\* since exists() makes stat() raise, which "except Exception: return False"
\* turns into "not locked"; a fresh marker makes capture_job log and return
LockStat(j) ==
  /\ pc[j] = "stat"
  /\ IF ~lock.exists
       THEN /\ pc' = [pc EXCEPT ![j] = "write"]
            /\ age' = age
       ELSE /\ age' = [age EXCEPT ![j] = now - lock.mtime]
            /\ pc' = [pc EXCEPT ![j] = IF IsStale(now - lock.mtime) THEN "unlink" ELSE "skipped"]
  /\ UNCHANGED <<catalogVars, launched, query, found, now, lock, passes, phase, mode, dryLog, avail, cmd, tool, ret,
                 fallback, outdirs, attempts, ticks>>

\* _is_locked: unlink() the marker judged stale; a missing marker makes
\* unlink() raise, which again returns False
LockUnlink(j) ==
  /\ pc[j] = "unlink"
  /\ lock' = NoFile
  /\ pc' = [pc EXCEPT ![j] = "write"]
  /\ UNCHANGED <<catalogVars, launched, query, found, now, passes, phase, mode, dryLog, age, avail, cmd, tool, ret,
                 fallback, outdirs, attempts, ticks>>

\* _acquire_lock: write_text creates the marker or overwrites the one there
LockWrite(j) ==
  /\ pc[j] = "write"
  /\ lock' = Marker(now, j)
  /\ pc' = [pc EXCEPT ![j] = "call"]
  /\ UNCHANGED <<catalogVars, launched, query, found, now, passes, phase, mode, dryLog, age, avail, cmd, tool, ret,
                 fallback, outdirs, attempts, ticks>>

(* --------------------- scheduler.py: _release_lock --------------------- *)
ReleaseExists(j) ==
  /\ pc[j] = "rel_exists"
  /\ pc' = [pc EXCEPT ![j] = IF lock.exists THEN "rel_unlink" ELSE "done"]
  /\ UNCHANGED <<catalogVars, launched, query, found, now, lock, passes, phase, mode, dryLog, age, avail, cmd, tool,
                 ret, fallback, outdirs, attempts, ticks>>

\* unlink() of whatever marker is there; a missing one raises and is logged
\* faulty variant: _release_lock returns and leaves the marker
ReleaseUnlinkKeepsMarker(j) ==
  /\ pc[j] = "rel_unlink"
  /\ pc' = [pc EXCEPT ![j] = "done"]
  /\ UNCHANGED <<catalogVars, launched, query, found, now, lock, passes, phase, mode, dryLog, age, avail, cmd, tool,
                 ret, fallback, outdirs, attempts, ticks>>

ReleaseUnlink(j) ==
  /\ pc[j] = "rel_unlink"
  /\ lock' = NoFile
  /\ pc' = [pc EXCEPT ![j] = "done"]
  /\ UNCHANGED <<catalogVars, launched, query, found, now, passes, phase, mode, dryLog, age, avail, cmd, tool, ret,
                 fallback, outdirs, attempts, ticks>>

(* ------------------- scheduler.py: capture_job ------------------------- *)
\* faulty variant: no finally, an exception leaves the job body at once
JobAfterCaptureNoFinally(r) == IF r = "raised" THEN "done" ELSE "rel_exists"
\* where the job body goes when capture_pass has ended with r ("true",
\* "false" or "raised"): try/finally runs _release_lock in every case
JobAfterCapture(r) == "rel_exists"

\* a direct call of capture_pass (no job body around it) just returns
AfterCapture(direct, r) == IF direct THEN "done" ELSE JobAfterCapture(r)

(* ---------------------- runner.py: capture_pass ------------------------ *)
\* faulty variant: a missing tool is recorded as a capture failure
CaptureToolMissingCounts(j, direct) ==
  /\ pc[j] = "call"
  /\ avail' = [avail EXCEPT ![j] = "no"]
  /\ ret' = [ret EXCEPT ![j] = "false"]
  /\ fallback' = [fallback EXCEPT ![SchedOf(j)] = RecordFailure(@, EventOf(j).sat)]
  /\ attempts' = [attempts EXCEPT ![SchedOf(j)] = Append(@, <<EventOf(j).sat, "env">>)]
  /\ pc' = [pc EXCEPT ![j] = IF direct THEN "done" ELSE "rel_exists"]
  /\ UNCHANGED <<catalogVars, launched, query, found, now, lock, passes, phase, mode, dryLog, age, cmd, tool, outdirs, ticks>>
\* shutil.which finds no tool: "return False" before anything else
CaptureToolMissing(j, direct) ==
  /\ pc[j] = "call"
  /\ avail' = [avail EXCEPT ![j] = "no"]
  /\ ret' = [ret EXCEPT ![j] = "false"]
  /\ attempts' = [attempts EXCEPT ![SchedOf(j)] = Append(@, <<EventOf(j).sat, "env">>)]
  /\ pc' = [pc EXCEPT ![j] = AfterCapture(direct, "false")]
  /\ UNCHANGED <<catalogVars, launched, query, found, now, lock, passes, phase, mode, dryLog, age, cmd, tool, fallback,
                 outdirs, ticks>>

\* faulty variant: the exception reaches the trigger loop and stops the scheduler
CaptureRaisesStopsScheduler(j, direct) ==
  /\ pc[j] = "call"
  /\ avail' = [avail EXCEPT ![j] = "yes"]
  /\ ret' = [ret EXCEPT ![j] = "raised"]
  /\ attempts' = [attempts EXCEPT ![j[1]] = Append(@, <<passes[j[1]][j[2]].sat, "raised">>)]
  /\ phase' = [phase EXCEPT ![j[1]] = IF direct THEN @ ELSE "stopped"]
  /\ pc' = [k \in JobIds |-> IF k = j THEN "done"
                              ELSE IF k[1] = j[1] /\ pc[k] = "armed" /\ ~direct THEN "abandoned"
                              ELSE pc[k]]
  /\ UNCHANGED <<catalogVars, launched, query, found, now, lock, passes, mode, dryLog, age, cmd, tool, fallback,
                 outdirs, ticks>>
\* _create_output_dir / _build_satdump_cmd run outside the try block: an
\* exception there (mkdir refused) leaves capture_pass as an exception
CaptureRaises(j, direct) ==
  /\ pc[j] = "call"
  /\ avail' = [avail EXCEPT ![j] = "yes"]
  /\ ret' = [ret EXCEPT ![j] = "raised"]
  /\ attempts' = [attempts EXCEPT ![SchedOf(j)] = Append(@, <<EventOf(j).sat, "raised">>)]
  /\ pc' = [pc EXCEPT ![j] = AfterCapture(direct, "raised")]
  /\ UNCHANGED <<catalogVars, launched, query, found, now, lock, passes, phase, mode, dryLog, age, cmd, tool, fallback,
                 outdirs, ticks>>

\* tool found: create the output directory, build the command, start the tool
CaptureLaunch(j) ==
  /\ pc[j] = "call"
  /\ avail' = [avail EXCEPT ![j] = "yes"]
  /\ outdirs' = EnsureDir(outdirs, OutputDirName(EventOf(j)))
  /\ cmd' = [cmd EXCEPT ![j] = BuildSatdumpCmd(fallback[SchedOf(j)], EventOf(j))]
  /\ launched' = [launched EXCEPT ![j] = now]
  /\ pc' = [pc EXCEPT ![j] = "run"]
  /\ UNCHANGED <<catalogVars, query, found, now, lock, passes, phase, mode, dryLog, age,
                 tool, ret, fallback, attempts, ticks>>

\* subprocess.run ends; a tool that ran has written its files into cwd
ToolEnds(j, runs) ==
  /\ pc[j] = "run"
  /\ \E r \in runs :
       /\ tool' = [tool EXCEPT ![j] = r[1]]
       /\ outdirs' = [outdirs EXCEPT ![OutputDirName(EventOf(j))] = @ \cup r[2]]
  /\ pc' = [pc EXCEPT ![j] = "check"]
  /\ UNCHANGED <<catalogVars, launched, query, found, now, lock, passes, phase, mode, dryLog, age, avail, cmd, ret,
                 fallback, attempts, ticks>>

\* faulty variant: the exit code alone decides
CaptureSucceededExitOnly(t, files) == t.kind = "exit" /\ t.rc = 0
\* "result.returncode == 0 and self._check_capture_success(output_dir)"
CaptureSucceeded(t, files) == t.kind = "exit" /\ t.rc = 0 /\ CheckCaptureSuccess(files)

\* the outcome is judged and recorded in the fallback state
CaptureResult(j, direct) ==
  /\ pc[j] = "check"
  /\ LET s   == SchedOf(j)
         sat == EventOf(j).sat
         ok  == CaptureSucceeded(tool[j], outdirs[OutputDirName(EventOf(j))])
         r   == IF ok THEN "true" ELSE "false"
     IN  /\ fallback' = [fallback EXCEPT ![s] =
                           IF ok THEN RecordSuccess(@, sat) ELSE RecordFailure(@, sat)]
         /\ ret' = [ret EXCEPT ![j] = r]
         /\ attempts' = [attempts EXCEPT ![s] = Append(@, <<sat, IF ok THEN "ok" ELSE "fail">>)]
         /\ pc' = [pc EXCEPT ![j] = AfterCapture(direct, r)]
  /\ UNCHANGED <<catalogVars, launched, query, found, now, lock, passes, phase, mode, dryLog, age, avail, cmd, tool,
                 outdirs, ticks>>

\* a caller other than the scheduler calls capture_pass for the next event,
\* once the previous call has returned
DirectCall(j) ==
  /\ j \in JobsOf(SchedOf(j))
  /\ pc[j] = "none"
  /\ \A k \in JobsOf(SchedOf(j)) : k[2] < j[2] => pc[k] = "done"
  /\ pc' = [pc EXCEPT ![j] = "call"]
  /\ UNCHANGED <<catalogVars, launched, query, found, now, lock, passes, phase, mode, dryLog, age, avail, cmd, tool,
                 ret, fallback, outdirs, attempts, ticks>>

(* ------------------- functions called on their own --------------------- *)
NoCall == [fn |-> "none"]
NoAnswer == [done |-> FALSE]
\* weather.tle: absent
NoCache == [exists |-> FALSE, mtime |-> 0, text |-> <<>>, readable |-> TRUE]
NoFetch == [pc |-> "idle"]

(* -------------------- scheduler.py: job identity ----------------------- *)
\* characters of a satellite name: a letter, the separator of the id, a
\* digit and the dot of the timestamp
NameChars == {"A", "_", "0", "."}
IdNames == UNION { [1..n -> NameChars] : n \in 0..MaxNameLen }
\* instants: whole seconds and a microsecond part
Instants == [sec : {0, 1, 10}, usec : {0, 1}]
IdEvents == [sat : IdNames, aos : Instants]

Digit(d) == CASE d = 0 -> "0" [] d = 1 -> "1" [] d = 2 -> "2" [] d = 3 -> "3"
              [] d = 4 -> "4" [] d = 5 -> "5" [] d = 6 -> "6" [] d = 7 -> "7"
              [] d = 8 -> "8" [] d = 9 -> "9"

\* datetime.isoformat(): fields of fixed width, the microseconds (with
\* their dot) only when they are not zero; the seconds field and the
\* microsecond part stand for the whole timestamp
IsoFormat(t) ==
  <<Digit(t.sec \div 10), Digit(t.sec % 10)>> \o
  (IF t.usec = 0 THEN <<>> ELSE <<".", Digit(t.usec)>>)

\* faulty variant: the id names the satellite only
JobIdNameOnly(e) == <<"capture_">> \o e.sat
\* id=f"capture_{pass_event.satellite_name}_{pass_event.aos.isoformat()}"
JobId(e) == <<"capture_">> \o e.sat \o <<"_">> \o IsoFormat(e.aos)

\* _schedule_capture is called for two events
CallScheduleIds ==
  /\ ask.fn = "job_id"
  /\ ~answer.done
  /\ answer' = [done |-> TRUE, ids |-> <<JobId(ask.e1), JobId(ask.e2)>>]
  /\ UNCHANGED <<ask, cacheFile, fetch, query, found, captureVars>>

(* ------------------ tle.py: select_targets ------------------------------ *)
\* tle.py:84-91  _METEOR_PATTERNS
MeteorPatterns ==
  { <<"M", "E", "T", "E", "O", "R", "-", "M", " ", "N", "2", "-", "3">>,
    <<"M", "E", "T", "E", "O", "R", "-", "M", " ", "N", "2", "-", "4">>,
    <<"M", "E", "T", "E", "O", "R", "-", "M", "2", " ", "3">>,
    <<"M", "E", "T", "E", "O", "R", "-", "M", "2", " ", "4">>,
    <<"M", "E", "T", "E", "O", "R", "-", "M", "2", "-", "3">>,
    <<"M", "E", "T", "E", "O", "R", "-", "M", "2", "-", "4">> }
\* tle.py:94-99  _NOAA_PATTERNS
NoaaPatterns ==
  { <<"N", "O", "A", "A", " ", "1", "5">>,
    <<"N", "O", "A", "A", "-", "1", "5">>,
    <<"N", "O", "A", "A", " ", "1", "9">>,
    <<"N", "O", "A", "A", "-", "1", "9">> }
\* tle.py:102-106  _METOP_PATTERNS
MetopPatterns ==
  { <<"M", "E", "T", "O", "P", "-", "B">>,
    <<"M", "E", "T", "O", "P", " ", "C">>,
    <<"M", "E", "T", "O", "P", "-", "C">> }

\* satellite names of a catalog: names the patterns match in upper, lower and
\* mixed case and inside a longer name, and names they do not match
CatalogNames ==
  { <<"M", "E", "T", "E", "O", "R", "-", "M", " ", "N", "2", "-", "3">>,
    <<"m", "e", "t", "e", "o", "r", "-", "m", "2", " ", "4">>,
    <<"N", "O", "A", "A", " ", "1", "9">>,
    <<"n", "o", "a", "a", "-", "1", "5">>,
    <<"M", "E", "T", "O", "P", "-", "B">>,
    <<"M", "e", "t", "O", "p", "-", "C">>,
    <<"N", "O", "A", "A", " ", "1", "8">>,
    <<"0", " ", "M", "E", "T", "O", "P", "-", "B", " ", "D", "E", "B">>,
    <<"M", "E", "T", "E", "O", "R", "-", "M", "2">> }
\* the bands argument
BandArgs ==
  { <<"l", "r", "p", "t">>,
    <<"h", "r", "p", "t">>,
    <<"a", "l", "l">>,
    <<"L", "R", "P", "T">>,
    <<"A", "l", "l">>,
    <<"a", "p", "t">> }
\* the element lines of an entry
ElementPairs == { <<"1 a", "2 a">>, <<"1 b", "2 b">> }
\* catalogs: mappings of up to MaxCatalog names to element lines
Catalogs ==
  UNION { [N -> ElementPairs] : N \in { M \in SUBSET CatalogNames : Cardinality(M) <= MaxCatalog } }

LowerLetters == <<"a", "b", "c", "d", "e", "f", "g", "h", "i", "j", "k", "l", "m", "n", "o", "p", "q", "r", "s", "t", "u", "v", "w", "x", "y", "z">>
UpperLetters == <<"A", "B", "C", "D", "E", "F", "G", "H", "I", "J", "K", "L", "M", "N", "O", "P", "Q", "R", "S", "T", "U", "V", "W", "X", "Y", "Z">>

\* str.upper() and str.lower() on the characters of a name or a band
UpperChar(c) ==
  IF \E i \in 1..Len(LowerLetters) : LowerLetters[i] = c
    THEN UpperLetters[CHOOSE i \in 1..Len(LowerLetters) : LowerLetters[i] = c]
    ELSE c
LowerChar(c) ==
  IF \E i \in 1..Len(UpperLetters) : UpperLetters[i] = c
    THEN LowerLetters[CHOOSE i \in 1..Len(UpperLetters) : UpperLetters[i] = c]
    ELSE c
\* faulty variant: the name is compared as it is written
KeepCase(n) == n
\* name.upper()
UpperName(n) == [i \in 1..Len(n) |-> UpperChar(n[i])]
\* bands.lower()
LowerBand(b) == [i \in 1..Len(b) |-> LowerChar(b[i])]

\* "p in u" for two strings
IsSubstring(p, u) ==
  \E i \in 0..(Len(u) - Len(p)) : SubSeq(u, i + 1, i + Len(p)) = p
\* any(p in u for p in patterns)
AnyIn(patterns, u) == \E p \in patterns : IsSubstring(p, u)

\* faulty variant: band "all" leaves the NOAA satellites out
BandAdmitsNoNoaaInAll(bands, is_meteor, is_noaa, is_metop) ==
  IF bands = <<"l", "r", "p", "t">> THEN is_meteor \/ is_noaa
  ELSE IF bands = <<"h", "r", "p", "t">> THEN is_metop \/ is_noaa
  ELSE is_meteor \/ is_metop
\* the if / elif / else on bands
BandAdmits(bands, is_meteor, is_noaa, is_metop) ==
  IF bands = <<"l", "r", "p", "t">> THEN is_meteor \/ is_noaa
  ELSE IF bands = <<"h", "r", "p", "t">> THEN is_metop \/ is_noaa
  ELSE is_meteor \/ is_noaa \/ is_metop

SelectTargets(tles, bands) ==
  LET b == LowerBand(bands)
      keep == { n \in DOMAIN tles :
                  BandAdmits(b, AnyIn(MeteorPatterns, UpperName(n)),
                                AnyIn(NoaaPatterns, UpperName(n)),
                                AnyIn(MetopPatterns, UpperName(n))) }
  IN  [n \in keep |-> tles[n]]

SelectMeteorTargets(tles) ==
  [n \in { m \in DOMAIN tles : AnyIn(MeteorPatterns, UpperName(m)) } |-> tles[n]]

\* select_targets(tles, bands) is called
CallSelectTargets ==
  /\ ask.fn = "select_targets"
  /\ ~answer.done
  /\ answer' = [done |-> TRUE, selected |-> SelectTargets(ask.tles, ask.bands)]
  /\ UNCHANGED <<ask, cacheFile, fetch, query, found, captureVars>>

\* select_meteor_targets(tles) is called
CallSelectMeteorTargets ==
  /\ ask.fn = "select_meteor_targets"
  /\ ~answer.done
  /\ answer' = [done |-> TRUE, selected |-> SelectMeteorTargets(ask.tles)]
  /\ UNCHANGED <<ask, cacheFile, fetch, query, found, captureVars>>

(* ------------------------ tle.py: fetch_tles ---------------------------- *)
\* max_age_hours
DefaultMaxAgeHours == 6
\* the longest sleep between two attempts
MaxSleepSec == 8
\* catalog texts: the one in the cache, the one the server sends, and what a
\* write that failed half-way leaves in the file
OldText == <<"old">>
NewText == <<"new">>
NoText == <<>>
\* weather.tle when fetch_tles is called: absent, or written some time ago;
\* a file may be one that read_text cannot read
CacheAges == {0, DefaultMaxAgeHours * SecPerHour, DefaultMaxAgeHours * SecPerHour + 1}
CacheFiles ==
  {[exists |-> FALSE, mtime |-> 0, text |-> NoText, readable |-> TRUE]}
    \cup { [exists |-> TRUE, mtime |-> 0 - a, text |-> OldText, readable |-> r] :
             a \in CacheAges, r \in BOOLEAN }
\* how one turn of the loop ends: the text is fetched and written; the
\* request fails; the text is fetched and write_text fails, before or after
\* it has emptied the file
AttemptEndings == {"ok", "request_failed", "open_failed", "write_failed"}

RECURSIVE Pow2(_)
Pow2(n) == IF n = 0 THEN 1 ELSE 2 * Pow2(n - 1)
\* min(2 ** attempt, 8)
SleepSec(attempt) == IF Pow2(attempt) < MaxSleepSec THEN Pow2(attempt) ELSE MaxSleepSec

\* the clock of the caller: time.time()
TimeNow == now + (IF fetch.pc = "idle" THEN 0 ELSE fetch.slept)

\* faulty variant: no cache is taken as fresh
IsFreshNever(f, max_age_hours, t) == FALSE
IsFresh(f, max_age_hours, t) ==
  /\ f.exists
  /\ t - f.mtime <= max_age_hours * SecPerHour

Returned(text) == [done |-> TRUE, kind |-> "text", text |-> text]
Raised(what) == [done |-> TRUE, kind |-> "raised", text |-> NoText, error |-> what]

\* cache_dir.mkdir(...) fails: the error leaves fetch_tles
FetchMkdirFails ==
  /\ ask.fn = "fetch_tles"
  /\ fetch.pc = "idle"
  /\ ~cacheFile.exists
  /\ fetch' = [pc |-> "done", attempt |-> 1, tries |-> 0, slept |-> 0, last |-> "none"]
  /\ answer' = Raised("OSError")
  /\ UNCHANGED <<ask, cacheFile, query, found, captureVars>>

\* the cache directory is there; a fresh cache that can be read is returned,
\* anything else leads into the loop
FetchBegin ==
  /\ ask.fn = "fetch_tles"
  /\ fetch.pc = "idle"
  /\ IF IsFresh(cacheFile, ask.max_age_hours, TimeNow) /\ cacheFile.readable
       THEN /\ fetch' = [pc |-> "done", attempt |-> 1, tries |-> 0, slept |-> 0, last |-> "none"]
            /\ answer' = Returned(cacheFile.text)
       ELSE /\ fetch' = [pc |-> "loop", attempt |-> 1, tries |-> 0, slept |-> 0, last |-> "none"]
            /\ answer' = answer
  /\ UNCHANGED <<ask, cacheFile, query, found, captureVars>>

\* one turn of "for attempt in range(1, backoff_attempts + 1)"
FetchAttempt(ending) ==
  /\ ask.fn = "fetch_tles"
  /\ fetch.pc = "loop"
  /\ fetch.attempt <= ask.backoff_attempts
  /\ IF ending = "ok"
       THEN /\ cacheFile' = [exists |-> TRUE, mtime |-> TimeNow, text |-> NewText,
                             readable |-> TRUE]
            /\ answer' = Returned(NewText)
            /\ fetch' = [fetch EXCEPT !.pc = "done", !.tries = @ + 1, !.last = ending]
       ELSE /\ cacheFile' = IF ending = "write_failed"
                              THEN [exists |-> TRUE, mtime |-> TimeNow, text |-> NoText,
                                    readable |-> TRUE]
                              ELSE cacheFile
            /\ answer' = answer
            /\ fetch' = [fetch EXCEPT !.attempt = @ + 1, !.tries = @ + 1,
                                      !.slept = @ + SleepSec(fetch.attempt),
                                      !.last = ending]
  /\ UNCHANGED <<ask, query, found, captureVars>>

\* the loop is over without a text: the cached copy if there is one, else
\* RuntimeError; a copy that cannot be read raises the error of read_text
FetchGiveUp ==
  /\ ask.fn = "fetch_tles"
  /\ fetch.pc = "loop"
  /\ fetch.attempt > ask.backoff_attempts
  /\ answer' = IF cacheFile.exists
                 THEN IF cacheFile.readable THEN Returned(cacheFile.text)
                      ELSE Raised("OSError")
                 ELSE Raised("RuntimeError")
  /\ fetch' = [fetch EXCEPT !.pc = "done"]
  /\ UNCHANGED <<ask, cacheFile, query, found, captureVars>>

(* ------------------------ tle.py: parse_tles ---------------------------- *)
\* the lines of a catalog text, as text.splitlines() gives them: names,
\* first and second element lines, a line of white space, an indented line
TextLines ==
  { <<"N">>, <<"M">>,
    <<"1", " ", "a">>, <<"1", " ", "b">>,
    <<"2", " ", "a">>,
    <<" ">>,
    <<" ", "1", " ", "a">> }

IsSpace(c) == c = " "
\* line.strip()
RECURSIVE Strip(_)
Strip(l) ==
  IF l = <<>> THEN <<>>
  ELSE IF IsSpace(l[1]) THEN Strip(Tail(l))
  ELSE IF IsSpace(l[Len(l)]) THEN Strip(SubSeq(l, 1, Len(l) - 1))
  ELSE l
\* faulty variant: the lines are taken as they are
KeepLine(l) == l

\* [line.strip() for line in text.splitlines() if line.strip()]
RECURSIVE StrippedLines(_)
StrippedLines(text) ==
  IF text = <<>> THEN <<>>
  ELSE IF Strip(text[1]) # <<>> THEN <<Strip(text[1])>> \o StrippedLines(Tail(text))
  ELSE StrippedLines(Tail(text))

\* l.startswith(p)
StartsWith(l, p) == Len(l) >= Len(p) /\ SubSeq(l, 1, Len(p)) = p

\* faulty variant: a group that does not fit ends the scan
NextIndexStopOnMismatch(i, fits, n) == IF fits THEN i + 3 ELSE n
\* "i += 3" and "i += 1"
NextIndex(i, fits, n) == IF fits THEN i + 3 ELSE i + 1

\* triples[name] = (l1, l2)
SetItem(d, k, v) == [x \in DOMAIN d \cup {k} |-> IF x = k THEN v ELSE d[x]]

\* the statements before the loop
ParseBegin ==
  /\ ask.fn = "parse_tles"
  /\ answer = NoAnswer
  /\ answer' = [done |-> FALSE, lines |-> StrippedLines(ask.text), i |-> 0,
                triples |-> EmptyMap]
  /\ UNCHANGED <<ask, cacheFile, fetch, query, found, captureVars>>

\* one turn of "while i + 2 < len(lines)"; i counts from 0 as in the code
ParseStep ==
  /\ ask.fn = "parse_tles"
  /\ answer # NoAnswer
  /\ ~answer.done
  /\ answer.i + 2 < Len(answer.lines)
  /\ LET name == answer.lines[answer.i + 1]
         l1   == answer.lines[answer.i + 2]
         l2   == answer.lines[answer.i + 3]
         fits == StartsWith(l1, <<"1", " ">>) /\ StartsWith(l2, <<"2", " ">>)
     IN  answer' = [answer EXCEPT
                      !.triples = IF fits THEN SetItem(@, name, <<l1, l2>>) ELSE @,
                      !.i = NextIndex(@, fits, Len(answer.lines))]
  /\ UNCHANGED <<ask, cacheFile, fetch, query, found, captureVars>>

\* the loop is over: return triples
ParseReturn ==
  /\ ask.fn = "parse_tles"
  /\ answer # NoAnswer
  /\ ~answer.done
  /\ ~(answer.i + 2 < Len(answer.lines))
  /\ answer' = [answer EXCEPT !.done = TRUE]
  /\ UNCHANGED <<ask, cacheFile, fetch, query, found, captureVars>>

(* ---------------------- cli.py: list-passes ------------------------------ *)
\* return values of main
ExitOk == 0
ExitNoTargets == 1
Commands == {"list-passes", "run", "none"}
\* the lines main prints
NoTargetsLine == "No METEOR targets found in TLE set."
NoPassesLine == "No passes within lookahead window."
WipLine == "[WIP] Scheduler not implemented yet. Use list-passes for now."
HelpLine == "usage"
VersionLine == "version"
\* what find_passes may return for a set of targets: up to MaxListed passes,
\* each of one of the targets
FoundLists(targets) == UNION { [1..n -> targets] : n \in 0..MaxListed }

\* _list_passes, from the catalog that fetch_tles and parse_tles delivered and
\* the list that find_passes returns for the selected targets
ListPasses(tles, passlist) ==
  LET targets == SelectMeteorTargets(tles)
  IN  IF DOMAIN targets = {}
        THEN [status |-> ExitNoTargets, out |-> <<NoTargetsLine>>, listed |-> <<>>]
      ELSE IF passlist = <<>>
        THEN [status |-> ExitOk, out |-> <<NoPassesLine>>, listed |-> <<>>]
      ELSE [status |-> ExitOk, out |-> <<>>, listed |-> passlist]

Main(version, command, tles, passlist) ==
  IF version THEN [status |-> ExitOk, out |-> <<VersionLine>>, listed |-> <<>>]
  ELSE IF command = "list-passes" THEN ListPasses(tles, passlist)
  ELSE IF command = "run" THEN [status |-> ExitOk, out |-> <<WipLine>>, listed |-> <<>>]
  ELSE [status |-> ExitOk, out |-> <<HelpLine>>, listed |-> <<>>]

\* main(argv) is called
CallMain ==
  /\ ask.fn = "main"
  /\ ~answer.done
  /\ answer' = [done |-> TRUE,
                result |-> Main(ask.version, ask.command, ask.tles, ask.passlist)]
  /\ UNCHANGED <<ask, cacheFile, fetch, query, found, captureVars>>

(* ----------------------- config.py: load_config ------------------------- *)
\* defaults of Config.lookahead_hours, Config.min_elevation_deg, Satdump.gain_db
DefaultLookahead == 24
DefaultMinElev == 20
DefaultGainDb == 40
DefaultConfig ==
  [raised |-> FALSE, lookahead_hours |-> DefaultLookahead,
   min_elevation_deg |-> DefaultMinElev, gain_db |-> DefaultGainDb]

\* values of a key of the parsed file: the key is not there, a number, null
Absent == [kind |-> "absent", v |-> 0]
FileNum(n) == [kind |-> "num", v |-> n]
FileNull == [kind |-> "null", v |-> 0]
NoSection == [kind |-> "absent", gain |-> Absent, gain_db |-> Absent]
\* what load_yaml_lazy hands back: None (no file, no yaml module), a value
\* that is not a mapping, a mapping, or an error of the read or the parse
FileMappings ==
  [lookahead : {Absent, FileNum(6), FileNull},
   min_elev  : {Absent, FileNum(30)},
   satdump   : {NoSection} \cup [kind : {"section"}, gain : {Absent, FileNum(10)},
                                 gain_db : {Absent, FileNum(50)}]]
NoMapping == [lookahead |-> Absent, min_elev |-> Absent, satdump |-> NoSection]
FileData ==
  [kind : {"none", "other", "error"}, map : {NoMapping}]
    \cup [kind : {"mapping"}, map : FileMappings]

\* the variables of _ENV_MAP that are modelled, and their values
EnvKeys == {"METEOR_AUTO_LOOKAHEAD_H", "METEOR_AUTO_MIN_ELEV_DEG", "METEOR_AUTO_GAIN_DB"}
Unset == [set |-> FALSE, s |-> <<>>]
EnvString(s) == [set |-> TRUE, s |-> s]
EnvValues == {Unset, EnvString(<<"4", "8">>), EnvString(<<"7">>), EnvString(<<"x">>)}
Environments == [EnvKeys -> EnvValues]
EmptyEnv == [k \in EnvKeys |-> Unset]
\* os.environ of the process
ProcessEnvs == {EmptyEnv, [EmptyEnv EXCEPT !["METEOR_AUTO_LOOKAHEAD_H"] = EnvString(<<"7">>)]}
\* the env argument: None, or a dict
NoEnvArg == [given |-> FALSE, env |-> EmptyEnv]

DigitChars == <<"0", "1", "2", "3", "4", "5", "6", "7", "8", "9">>
IsDigit(c) == \E d \in 1..10 : DigitChars[d] = c
DigitValue(c) == (CHOOSE d \in 1..10 : DigitChars[d] = c) - 1
\* int(s) and float(s) on a string of decimal digits; anything else raises
RECURSIVE NumberFrom(_, _)
NumberFrom(s, acc) ==
  IF s = <<>> THEN acc ELSE NumberFrom(Tail(s), 10 * acc + DigitValue(s[1]))
CastNumber(s) ==
  IF s # <<>> /\ \A i \in 1..Len(s) : IsDigit(s[i])
    THEN [ok |-> TRUE, v |-> NumberFrom(s, 0)]
    ELSE [ok |-> FALSE, v |-> 0]

\* "env = env or os.environ": an empty dict counts as no dict
EffectiveEnv(arg, os_environ) ==
  IF arg.given /\ arg.env # EmptyEnv THEN arg.env ELSE os_environ

\* one entry of _ENV_MAP applied to cfg
EnvOverride(cfg, env, key, field) ==
  IF cfg.raised \/ ~env[key].set THEN cfg
  ELSE IF CastNumber(env[key].s).ok
    THEN [cfg EXCEPT ![field] = CastNumber(env[key].s).v]
    ELSE [cfg EXCEPT !.raised = TRUE]

ApplyEnvOverrides(cfg, env) ==
  EnvOverride(
    EnvOverride(
      EnvOverride(cfg, env, "METEOR_AUTO_LOOKAHEAD_H", "lookahead_hours"),
      env, "METEOR_AUTO_MIN_ELEV_DEG", "min_elevation_deg"),
    env, "METEOR_AUTO_GAIN_DB", "gain_db")

\* int(x) / float(x) of a file value put into a field; null raises
FileOverride(cfg, val, field) ==
  IF cfg.raised \/ val.kind = "absent" THEN cfg
  ELSE IF val.kind = "num" THEN [cfg EXCEPT ![field] = val.v]
  ELSE [cfg EXCEPT !.raised = TRUE]

\* s.get("gain", s.get("gain_db", cfg.satdump.gain_db))
GetGain(sec) == IF sec.gain.kind # "absent" THEN sec.gain ELSE sec.gain_db

MergeFromMapping(cfg, data) ==
  FileOverride(
    FileOverride(
      FileOverride(cfg, data.lookahead, "lookahead_hours"),
      data.min_elev, "min_elevation_deg"),
    IF data.satdump.kind = "section" THEN GetGain(data.satdump) ELSE Absent, "gain_db")

\* faulty variant: the file is merged after the environment
ApplySourcesFileLast(cfg, data, env) ==
  IF data.kind = "mapping" THEN MergeFromMapping(ApplyEnvOverrides(cfg, env), data.map)
  ELSE ApplyEnvOverrides(cfg, env)
\* the file, when it gave a mapping, then the environment
ApplySources(cfg, data, env) ==
  ApplyEnvOverrides(IF data.kind = "mapping" THEN MergeFromMapping(cfg, data.map) ELSE cfg, env)

LoadConfig(path_given, data, arg, os_environ) ==
  IF path_given /\ data.kind = "error" THEN [DefaultConfig EXCEPT !.raised = TRUE]
  ELSE ApplySources(DefaultConfig,
                    IF path_given THEN data ELSE [kind |-> "none", map |-> NoMapping],
                    EffectiveEnv(arg, os_environ))

\* load_config(path, env) is called
CallLoadConfig ==
  /\ ask.fn = "load_config"
  /\ ~answer.done
  /\ answer' = [done |-> TRUE,
                cfg |-> LoadConfig(ask.path_given, ask.data, ask.arg, ask.os_environ)]
  /\ UNCHANGED <<ask, cacheFile, fetch, query, found, captureVars>>

(* ---------------------- predict.py: find_passes ------------------------ *)
\* predict.py:61,63  aos_dt = None, peak_time = None
NoneTime == -1
\* predict.py:62  peak_el = -90.0
LowestEl == -90

\* elevations the propagator returns, in degrees; those of a second target
Elevations == {-5, 0, 10, 30}
PairElevations == {-5, 30}
\* the arguments lookahead_hours, step_seconds, min_elev_deg, and the
\* instant datetime.now() at which find_passes starts, in seconds
LookaheadHours == {1, 2}
StepSeconds == {1800, 2400}
MinElevations == {10, 20}
StartTimes == {0, 45}

\* end = start + timedelta(hours=lookahead_hours)
EndTime(q) == q.start + q.hours * SecPerHour
\* the instants of "while t <= end: ... t += timedelta(seconds=step_seconds)"
SampleTimes(start, hours, step) ==
  { start + i * step : i \in 0..((hours * SecPerHour) \div step) }

\* sat_name_to_tle.items() in its iteration order
TargetOrders == { <<>>, << <<"A">> >>, << <<"A">>, <<"B">> >>, << <<"B">>, <<"A">> >> }
Names(order) == { order[i] : i \in 1..Len(order) }

\* what the propagator answers for the targets of order at the sampled instants
Profiles(order, times) ==
  IF Len(order) = 2
    THEN { (<<"A">> :> fa) @@ (<<"B">> :> fb) :
             fa \in [times -> Elevations], fb \in [times -> PairElevations] }
    ELSE [Names(order) -> [times -> Elevations]]

Query(o, h, d, m, t0, f) ==
  [order |-> o, hours |-> h, step |-> d, min_elev |-> m, start |-> t0, elev |-> f]

NoQuery == [order |-> <<>>, hours |-> 0, step |-> 0, min_elev |-> 0, start |-> 0,
            elev |-> EmptyMap]
NotCalled == [done |-> FALSE, passes |-> <<>>]

\* _elevation_deg(sat, qth, ts, t)
ElevationDeg(q, name, t) == q.elev[name][t]

\* the loop variables at the top of a target's loop, passes being the list
\* collected so far
ScanStart(acc) ==
  [in_pass |-> FALSE, aos_dt |-> NoneTime, peak_el |-> LowestEl, peak_time |-> NoneTime,
   passes |-> acc]

\* faulty variant: the sample at the horizon crossing is not taken as a peak
StartPassKeepsPeak(st, t, el) == [st EXCEPT !.in_pass = TRUE, !.aos_dt = t]
\* "if elev >= 0.0 and not in_pass": horizon crossing
StartPass(st, t, el) ==
  [st EXCEPT !.in_pass = TRUE, !.aos_dt = t, !.peak_el = el, !.peak_time = t]

\* faulty variant: a later sample that equals the peak replaces it
TrackPeakLatest(st, t, el) ==
  IF el >= st.peak_el THEN [st EXCEPT !.peak_el = el, !.peak_time = t] ELSE st
\* "if elev > peak_el"
TrackPeak(st, t, el) ==
  IF el > st.peak_el THEN [st EXCEPT !.peak_el = el, !.peak_time = t] ELSE st

\* faulty variant: duration_sec counted up to the peak
MakeEventToPeak(name, st, t) ==
  [sat |-> name, aos |-> st.aos_dt, tca |-> st.peak_time, los |-> t,
   max_el |-> st.peak_el, dur |-> st.peak_time - st.aos_dt]
\* PassEvent(...), duration_sec = int((los_dt - aos_dt).total_seconds()):
\* instants are whole seconds apart, int() has nothing to cut
MakeEvent(name, st, t) ==
  [sat |-> name, aos |-> st.aos_dt, tca |-> st.peak_time, los |-> t,
   max_el |-> st.peak_el, dur |-> t - st.aos_dt]

\* faulty variant: the in-pass state is reset only when a pass was emitted
EndPassResetOnEmit(st, name, t, min_elev) ==
  IF st.peak_el >= min_elev /\ st.aos_dt # NoneTime /\ st.peak_time # NoneTime
    THEN ScanStart(Append(st.passes, MakeEvent(name, st, t)))
    ELSE st
\* "if elev < 0.0": end of pass; emit when the peak qualifies, reset in
\* either case
EndPass(st, name, t, min_elev) ==
  ScanStart(IF st.peak_el >= min_elev /\ st.aos_dt # NoneTime /\ st.peak_time # NoneTime
              THEN Append(st.passes, MakeEvent(name, st, t))
              ELSE st.passes)

\* the body of the while loop for one sample
ScanSample(st, name, t, el, min_elev) ==
  IF el >= 0 /\ ~st.in_pass THEN StartPass(st, t, el)
  ELSE IF st.in_pass
         THEN LET p == TrackPeak(st, t, el)
              IN  IF el < 0 THEN EndPass(p, name, t, min_elev) ELSE p
         ELSE st

\* "while t <= end" for one target, from instant t on
RECURSIVE ScanTarget(_, _, _, _)
ScanTarget(q, st, name, t) ==
  IF t > EndTime(q) THEN st
  ELSE ScanTarget(q, ScanSample(st, name, t, ElevationDeg(q, name, t), q.min_elev),
                  name, t + q.step)

\* faulty variant: a pass still open when the loop ends is emitted with
\* the last instant as its los
TargetPassesFlush(q, name, acc) ==
  LET st == ScanTarget(q, ScanStart(acc), name, q.start)
  IN  IF st.in_pass
        THEN Append(st.passes, MakeEvent(name, st, q.start + ((q.hours * SecPerHour) \div q.step) * q.step))
        ELSE st.passes
\* one round of "for sat_name, (l1, l2) in sat_name_to_tle.items()": the
\* loop variables are dropped when the while loop ends
TargetPasses(q, name, acc) == ScanTarget(q, ScanStart(acc), name, q.start).passes

\* the for loop over the targets from position i on
RECURSIVE ScanTargets(_, _, _)
ScanTargets(q, i, acc) ==
  IF i > Len(q.order) THEN acc
  ELSE ScanTargets(q, i + 1, TargetPasses(q, q.order[i], acc))

\* list.sort(key=lambda p: p.aos) is stable: e goes behind the events
\* whose aos is not later
RECURSIVE InsertByAos(_, _)
InsertByAos(l, e) ==
  IF l = <<>> THEN <<e>>
  ELSE IF l[Len(l)].aos <= e.aos THEN Append(l, e)
  ELSE Append(InsertByAos(SubSeq(l, 1, Len(l) - 1), e), l[Len(l)])

RECURSIVE SortFrom(_, _, _)
SortFrom(l, i, acc) ==
  IF i > Len(l) THEN acc ELSE SortFrom(l, i + 1, InsertByAos(acc, l[i]))

\* faulty variant: the list is returned in the order of collection
KeepOrder(l) == l
\* passes.sort(key=lambda p: p.aos)
SortPasses(l) == SortFrom(l, 1, <<>>)

FindPasses(q) == SortPasses(ScanTargets(q, 1, <<>>))

\* find_passes is called with the arguments of query
CallFindPasses ==
  /\ ~found.done
  /\ query # NoQuery
  /\ found' = [done |-> TRUE, passes |-> FindPasses(query)]
  /\ UNCHANGED <<query, captureVars, catalogVars>>

(* --------------------------- specifications ---------------------------- *)
JobInit ==
  /\ phase = [s \in Scheds |-> "new"]
  /\ mode = [s \in Scheds |-> "none"]
  /\ dryLog = [s \in Scheds |-> <<>>]
  /\ pc = [j \in JobIds |-> "none"]
  /\ age = [j \in JobIds |-> -1]
  /\ avail = [j \in JobIds |-> "unchecked"]
  /\ cmd = [j \in JobIds |-> NoCmd]
  /\ tool = [j \in JobIds |-> NoTool]
  /\ ret = [j \in JobIds |-> "none"]
  /\ fallback = [s \in Scheds |-> EmptyMap]
  /\ outdirs = EmptyMap
  /\ attempts = [s \in Scheds |-> <<>>]
  /\ now = 0
  /\ ticks = 0
  /\ launched = [j \in JobIds |-> 0]

\* find_passes is not called
PredictIdle ==
  /\ query = NoQuery
  /\ found = NotCalled

\* no catalog function is called, no catalog is cached
CatalogIdle ==
  /\ ask = NoCall
  /\ answer = NoAnswer
  /\ cacheFile = NoCache
  /\ fetch = NoFetch

RECURSIVE TotalJobs(_, _)
TotalJobs(p, S) ==
  IF S = {} THEN 0 ELSE LET s == CHOOSE x \in S : TRUE IN Len(p[s]) + TotalJobs(p, S \ {s})

\* schedulers share the lock path; the marker may have been left behind by
\* an earlier process.  The numbering of the schedulers and the naming of
\* the satellites are immaterial: the longer lists come first, and the
\* first event is one of satellite "A"
Init ==
  /\ JobInit
  /\ PredictIdle
  /\ CatalogIdle
  /\ lock \in {NoFile, Marker(0, Foreign)}
  /\ passes \in { p \in [Scheds -> PassLists(MaxJobs)] :
                    /\ TotalJobs(p, Scheds) <= MaxJobs
                    /\ \A s \in Scheds \ {1} : Len(p[s]) <= Len(p[s - 1])
                    /\ p[1] # <<>> => p[1][1].sat = <<"A">> }

Next ==
  \/ \E d \in {ShortStep, StaleSec} : Tick(d)
  \/ \E s \in Scheds : ScheduleNothing(s)
  \/ \E s \in Scheds : ScheduleDryRun(s)
  \/ \E s \in Scheds : ScheduleAndStart(s)
  \/ \E s \in Scheds : Interrupt(s)
  \/ \E s \in Scheds : ShutdownReturns(s)
  \/ \E j \in JobIds : FireJob(j)
  \/ \E j \in JobIds : LockExists(j)
  \/ \E j \in JobIds : LockStat(j)
  \/ \E j \in JobIds : LockUnlink(j)
  \/ \E j \in JobIds : LockWrite(j)
  \/ \E j \in JobIds : CaptureToolMissing(j, FALSE)
  \/ \E j \in JobIds : CaptureRaises(j, FALSE)
  \/ \E j \in JobIds : CaptureLaunch(j)
  \/ \E j \in JobIds : ToolEnds(j, JobToolRuns)
  \/ \E j \in JobIds : CaptureResult(j, FALSE)
  \/ \E j \in JobIds : ReleaseExists(j)
  \/ \E j \in JobIds : ReleaseUnlink(j)

Spec == Init /\ [][Next]_vars

\* the steps of job j: its trigger, the job body, the capture it runs
JobStep(j) ==
  \/ FireJob(j)
  \/ LockExists(j)
  \/ LockStat(j)
  \/ LockUnlink(j)
  \/ LockWrite(j)
  \/ CaptureToolMissing(j, FALSE)
  \/ CaptureRaises(j, FALSE)
  \/ CaptureLaunch(j)
  \/ ToolEnds(j, JobToolRuns)
  \/ CaptureResult(j, FALSE)
  \/ ReleaseExists(j)
  \/ ReleaseUnlink(j)

\* one PassScheduler run on its own
InitOne ==
  /\ Init
  /\ \A s \in Scheds \ {1} : passes[s] = <<>>

\* time passes; the trigger loop starts every job that is due (the worker
\* pool is larger than the number of jobs); a worker thread goes on with
\* its job body; the tool ends by itself or by its timeout; shutdown()
\* returns when the job bodies it waits for have ended.  Nothing obliges an
\* interrupt to come.
Fairness ==
  /\ WF_vars(\E d \in {ShortStep, StaleSec} : Tick(d))
  /\ \A j \in JobIds : WF_vars(JobStep(j))
  /\ \A s \in Scheds : WF_vars(ShutdownReturns(s))

SpecLive == InitOne /\ [][Next]_vars /\ Fairness

\* the job body is at a step that takes no time to speak of (a file
\* operation on the marker, a call, a return), the tool not running
Busy(j) ==
  pc[j] \in {"exists", "stat", "unlink", "write", "call", "check", "rel_exists", "rel_unlink"}

\* faulty variant: the clock may pass a trigger time before the job is started
TickLate(d) == Tick(d)

\* the clock with the timing of the trigger loop and of the tool: a job is
\* started when its run_date comes, before the clock moves on; the short
\* steps of a job body are over before it moves on; subprocess.run returns
\* or raises TimeoutExpired when duration_sec + 300 seconds are over
TickTimed(d) ==
  /\ \A j \in JobIds : ~Busy(j)
  /\ \A j \in JobIds :
       (pc[j] = "armed" /\ phase[SchedOf(j)] = "running") => now + d <= TriggerTime(EventOf(j))
  /\ \A j \in JobIds : pc[j] = "run" => now + d <= launched[j] + cmd[j].wall
  /\ Tick(d)

\* schedule_passes is called with dry_run = False while every trigger time
\* is still to come
StartOnTime(s) ==
  /\ \A j \in JobsOf(s) : now <= TriggerTime(EventOf(j))
  /\ ScheduleAndStart(s)

\* as Init; the marker left behind may be older than the staleness limit
InitTimed ==
  /\ JobInit
  /\ PredictIdle
  /\ CatalogIdle
  /\ lock \in {NoFile, Marker(0, Foreign), Marker(0 - StaleSec - ShortStep, Foreign)}
  /\ passes \in { p \in [Scheds -> PassLists(MaxJobs)] :
                    /\ TotalJobs(p, Scheds) <= MaxJobs
                    /\ \A s \in Scheds \ {1} : Len(p[s]) <= Len(p[s - 1])
                    /\ p[1] # <<>> => p[1][1].sat = <<"A">> }

NextTimed ==
  \/ \E d \in {ShortStep, StaleSec} : TickTimed(d)
  \/ \E s \in Scheds : ScheduleNothing(s)
  \/ \E s \in Scheds : ScheduleDryRun(s)
  \/ \E s \in Scheds : StartOnTime(s)
  \/ \E s \in Scheds : Interrupt(s)
  \/ \E s \in Scheds : ShutdownReturns(s)
  \/ \E j \in JobIds : FireJob(j)
  \/ \E j \in JobIds : LockExists(j)
  \/ \E j \in JobIds : LockStat(j)
  \/ \E j \in JobIds : LockUnlink(j)
  \/ \E j \in JobIds : LockWrite(j)
  \/ \E j \in JobIds : CaptureToolMissing(j, FALSE)
  \/ \E j \in JobIds : CaptureRaises(j, FALSE)
  \/ \E j \in JobIds : CaptureLaunch(j)
  \/ \E j \in JobIds : ToolEnds(j, JobToolRuns)
  \/ \E j \in JobIds : CaptureResult(j, FALSE)
  \/ \E j \in JobIds : ReleaseExists(j)
  \/ \E j \in JobIds : ReleaseUnlink(j)

SpecTimed == InitTimed /\ [][NextTimed]_vars

\* one scheduler with two passes, the clock as in SpecTimed: the first pass
\* is short, or as long as the staleness limit lets the tool run, or a
\* minute longer; the second is due while the first is captured, between
\* the end of the first window and the end of the time subprocess.run allows,
\* at that end, or after it
LongDurations ==
  {10 * ShortStep, StaleSec - SafetyMarginSec, StaleSec - SafetyMarginSec + ShortStep}
\* trigger times of the second pass after a first pass of d seconds that is
\* started at 0
LaterTriggers(d) ==
  { ShortStep,
    d + PreMarginSec + PostMarginSec + ShortStep,
    d + SafetyMarginSec,
    d + SafetyMarginSec + ShortStep }
LongInstants ==
  {0} \cup UNION { LaterTriggers(d) \cup {d + PreMarginSec + PostMarginSec} : d \in LongDurations }
LongSteps == { t - u : t \in LongInstants, u \in LongInstants } \ { x \in -(30 * SecPerHour)..0 : TRUE }
LongPassLists ==
  { << [sat |-> <<"A">>, aos |-> PreRollSec, dur |-> d],
       [sat |-> <<"B">>, aos |-> t + PreRollSec, dur |-> 10 * ShortStep] >> :
      d \in LongDurations, t \in LongInstants }

\* capture_pass takes time before it starts the tool (shutil.which, mkdir,
\* the command line, logging): at most one step of the clock between the
\* write of the marker and subprocess.run, and never past a trigger or past
\* the time another tool is allowed
SetupDelay(j) ==
  /\ pc[j] = "call"
  /\ lock.exists
  /\ lock.owner = j
  /\ now = lock.mtime
  /\ \A k \in JobIds : k # j => ~Busy(k)
  /\ \A k \in JobIds :
       (pc[k] = "armed" /\ phase[SchedOf(k)] = "running")
         => now + ShortStep <= TriggerTime(EventOf(k))
  /\ \A k \in JobIds : pc[k] = "run" => now + ShortStep <= launched[k] + cmd[k].wall
  /\ Tick(ShortStep)

\* the tool is still running when the time subprocess.run allows is over:
\* TimeoutExpired, whatever the tool wrote
ToolTimesOut(j) ==
  /\ pc[j] = "run"
  /\ now = launched[j] + cmd[j].wall
  /\ ToolEnds(j, {<<[kind |-> "timeout", rc |-> 0], {}>>, <<[kind |-> "timeout", rc |-> 0], {"png"}>>})

InitLong ==
  /\ JobInit
  /\ PredictIdle
  /\ CatalogIdle
  /\ lock \in {NoFile, Marker(0 - StaleSec - ShortStep, Foreign)}
  /\ \E l \in LongPassLists :
       /\ l[2].aos - PreRollSec \in LaterTriggers(l[1].dur)
       /\ passes = [s \in Scheds |-> IF s = 1 THEN l ELSE <<>>]

NextLong ==
  \/ \E d \in LongSteps : TickTimed(d)
  \/ \E j \in JobIds : SetupDelay(j)
  \/ \E s \in Scheds : ScheduleNothing(s)
  \/ \E s \in Scheds : ScheduleDryRun(s)
  \/ \E s \in Scheds : StartOnTime(s)
  \/ \E s \in Scheds : Interrupt(s)
  \/ \E s \in Scheds : ShutdownReturns(s)
  \/ \E j \in JobIds : FireJob(j)
  \/ \E j \in JobIds : LockExists(j)
  \/ \E j \in JobIds : LockStat(j)
  \/ \E j \in JobIds : LockUnlink(j)
  \/ \E j \in JobIds : LockWrite(j)
  \/ \E j \in JobIds : CaptureToolMissing(j, FALSE)
  \/ \E j \in JobIds : CaptureRaises(j, FALSE)
  \/ \E j \in JobIds : CaptureLaunch(j)
  \/ \E j \in JobIds : ToolEnds(j, JobToolRuns)
  \/ \E j \in JobIds : ToolTimesOut(j)
  \/ \E j \in JobIds : CaptureResult(j, FALSE)
  \/ \E j \in JobIds : ReleaseExists(j)
  \/ \E j \in JobIds : ReleaseUnlink(j)

SpecLong == InitLong /\ [][NextLong]_vars

\* one SatDumpRunner, capture_pass called for one event after the other
AttemptPool ==
  [sat : Sats, aos : { PreRollSec + (i - 1) * ShortStep : i \in 1..MaxAttempts }, dur : Durations]
AttemptLists ==
  { l \in UNION { [1..k -> AttemptPool] : k \in 0..MaxAttempts } :
      \A i \in 1..Len(l) : l[i].aos = PreRollSec + (i - 1) * ShortStep }

InitRunner ==
  /\ JobInit
  /\ PredictIdle
  /\ CatalogIdle
  /\ lock = NoFile
  /\ passes \in { p \in [Scheds -> AttemptLists] :
                    /\ \A s \in Scheds \ {1} : p[s] = <<>>
                    /\ p[1] # <<>> => p[1][1].sat = <<"A">> }

NextRunner ==
  \/ \E j \in JobIds : DirectCall(j)
  \/ \E j \in JobIds : CaptureToolMissing(j, TRUE)
  \/ \E j \in JobIds : CaptureRaises(j, TRUE)
  \/ \E j \in JobIds : CaptureLaunch(j)
  \/ \E j \in JobIds : ToolEnds(j, AllToolRuns)
  \/ \E j \in JobIds : CaptureResult(j, TRUE)

SpecRunner == InitRunner /\ [][NextRunner]_vars

\* capture_pass called by one caller for any two events in turn: the same
\* event again, events whose names differ only in " ", "/" and "_", events
\* whose instants differ by less than a second, passes of different length
RerunNames == { <<"A", " ", "B">>, <<"A", "_", "B">>, <<"A", "B">> }
RerunDurations == {300, 600}
RerunPool == [sat : RerunNames, aos : {PreRollSec}, usec : {0, 1}, dur : RerunDurations]

InitRerun ==
  /\ JobInit
  /\ PredictIdle
  /\ CatalogIdle
  /\ lock = NoFile
  /\ passes \in { q \in [Scheds -> UNION { [1..k -> RerunPool] : k \in 0..MaxReruns }] :
                    \A s \in Scheds \ {1} : q[s] = <<>> }

NextRerun ==
  \/ \E j \in JobIds : DirectCall(j)
  \/ \E j \in JobIds : CaptureToolMissing(j, TRUE)
  \/ \E j \in JobIds : CaptureRaises(j, TRUE)
  \/ \E j \in JobIds : CaptureLaunch(j)
  \/ \E j \in JobIds : ToolEnds(j, AllToolRuns)
  \/ \E j \in JobIds : CaptureResult(j, TRUE)

SpecRerun == InitRerun /\ [][NextRerun]_vars

\* the fallback tracker of one SatDumpRunner on its own: _record_failure and
\* _record_success called in any order for any satellite
CallRecordFailure(s, sat) ==
  /\ Len(attempts[s]) < MaxCalls
  /\ fallback' = [fallback EXCEPT ![s] = RecordFailure(@, sat)]
  /\ attempts' = [attempts EXCEPT ![s] = Append(@, <<sat, "fail">>)]
  /\ UNCHANGED <<catalogVars, launched, query, found, now, lock, passes, phase, mode, dryLog, pc, age, avail, cmd, tool,
                 ret, outdirs, ticks>>

CallRecordSuccess(s, sat) ==
  /\ Len(attempts[s]) < MaxCalls
  /\ fallback' = [fallback EXCEPT ![s] = RecordSuccess(@, sat)]
  /\ attempts' = [attempts EXCEPT ![s] = Append(@, <<sat, "ok">>)]
  /\ UNCHANGED <<catalogVars, launched, query, found, now, lock, passes, phase, mode, dryLog, pc, age, avail, cmd, tool,
                 ret, outdirs, ticks>>

InitTracker ==
  /\ JobInit
  /\ PredictIdle
  /\ CatalogIdle
  /\ lock = NoFile
  /\ passes = [s \in Scheds |-> <<>>]

NextTracker ==
  \/ \E sat \in Sats : CallRecordFailure(1, sat)
  \/ \E sat \in Sats : CallRecordSuccess(1, sat)

SpecTracker == InitTracker /\ [][NextTracker]_vars

\* one call of find_passes, for every query
InitPredict ==
  /\ JobInit
  /\ CatalogIdle
  /\ lock = NoFile
  /\ passes = [s \in Scheds |-> <<>>]
  /\ \E o \in TargetOrders, h \in LookaheadHours, d \in StepSeconds,
        m \in MinElevations, t0 \in StartTimes :
       \E f \in Profiles(o, SampleTimes(t0, h, d)) : query = Query(o, h, d, m, t0, f)
  /\ found = NotCalled

NextPredict == CallFindPasses

\* the functions that are called on their own, each for every argument
InitCalls ==
  /\ JobInit
  /\ PredictIdle
  /\ lock = NoFile
  /\ passes = [s \in Scheds |-> <<>>]
  /\ answer = NoAnswer
  /\ cacheFile = NoCache
  /\ fetch = NoFetch
  /\ \/ \E a \in IdEvents, b \in IdEvents : ask = [fn |-> "job_id", e1 |-> a, e2 |-> b]
     \/ \E c \in Catalogs, b \in BandArgs : ask = [fn |-> "select_targets", tles |-> c, bands |-> b]
     \/ \E c \in Catalogs : ask = [fn |-> "select_meteor_targets", tles |-> c]
     \/ \E c \in Catalogs, v \in BOOLEAN, k \in Commands :
          \E l \in FoundLists(DOMAIN SelectMeteorTargets(c)) :
            ask = [fn |-> "main", version |-> v, command |-> k, tles |-> c, passlist |-> l]

NextCalls ==
  \/ CallScheduleIds
  \/ CallSelectTargets
  \/ CallSelectMeteorTargets
  \/ CallMain

SpecCalls == InitCalls /\ [][NextCalls]_vars

SpecPredict == InitPredict /\ [][NextPredict]_vars

\* fetch_tles called with every cache and every number of attempts; the
\* interpreter runs the call to its end and every request comes back
InitFetch ==
  /\ JobInit
  /\ PredictIdle
  /\ lock = NoFile
  /\ passes = [s \in Scheds |-> <<>>]
  /\ answer = NoAnswer
  /\ fetch = NoFetch
  /\ cacheFile \in CacheFiles
  /\ \E b \in 0..MaxBackoff, h \in {0, DefaultMaxAgeHours} :
       ask = [fn |-> "fetch_tles", max_age_hours |-> h, backoff_attempts |-> b]

NextFetch ==
  \/ FetchMkdirFails
  \/ FetchBegin
  \/ \E ending \in AttemptEndings : FetchAttempt(ending)
  \/ FetchGiveUp

SpecFetch == InitFetch /\ [][NextFetch]_vars /\ WF_vars(NextFetch)

\* load_config called with every file content and every environment
InitConfig ==
  /\ JobInit
  /\ PredictIdle
  /\ lock = NoFile
  /\ passes = [s \in Scheds |-> <<>>]
  /\ answer = NoAnswer
  /\ cacheFile = NoCache
  /\ fetch = NoFetch
  /\ \E d \in FileData, o \in ProcessEnvs, g \in BOOLEAN :
       \E a \in {NoEnvArg} \cup [given : {TRUE}, env : Environments] :
         /\ ~g => d.kind = "none"
         /\ ask = [fn |-> "load_config", path_given |-> g, data |-> d, arg |-> a,
                   os_environ |-> o]

NextConfig == CallLoadConfig

SpecConfig == InitConfig /\ [][NextConfig]_vars

\* parse_tles called for every text of up to MaxLines lines; the interpreter
\* runs the call to its end
InitParse ==
  /\ JobInit
  /\ PredictIdle
  /\ lock = NoFile
  /\ passes = [s \in Scheds |-> <<>>]
  /\ answer = NoAnswer
  /\ cacheFile = NoCache
  /\ fetch = NoFetch
  /\ \E n \in 0..MaxLines : \E t \in [1..n -> TextLines] :
       ask = [fn |-> "parse_tles", text |-> t]

NextParse ==
  \/ ParseBegin
  \/ ParseStep
  \/ ParseReturn

SpecParse == InitParse /\ [][NextParse]_vars /\ WF_vars(NextParse)

(* ------------------------------ claims --------------------------------- *)
\* a capture_pass invocation of job j is in flight: the tool is running or
\* its outcome is being judged
InFlight(j) == pc[j] \in {"run", "check"}

\* C1: at most one capture_pass invocation is in flight at any time, over
\* the jobs of one scheduler and over the jobs of schedulers that share the
\* lock path.
C1_AtMostOneCaptureInFlight == Cardinality({ j \in JobIds : InFlight(j) }) <= 1

\* C2: when _is_locked finds the marker present and at most 4 hours old,
\* _acquire_lock returns False (the job body returns at once) and the marker
\* stays as it was; so a second acquisition without a release fails.
C2_FreshMarkerRefuses ==
  [][ \A j \in JobIds :
        ( /\ pc[j] = "stat"
          /\ pc'[j] # "stat"
          /\ lock.exists
          /\ now - lock.mtime <= 4 * 3600 )
        => pc'[j] = "skipped" /\ lock' = lock ]_vars

\* C2 happens: a job was refused by the marker another job had written and
\* not yet released
C2_Witness ==
  \E j \in JobIds, k \in JobIds :
    /\ j # k
    /\ pc[j] = "skipped"
    /\ lock.exists /\ lock.owner = k
    /\ pc[k] \in {"call", "run", "check"}

\* C3: when _is_locked finds the marker present and more than 4 hours old,
\* _acquire_lock goes on to remove it, writes a fresh marker of its own and
\* returns True (the job body goes on to capture_pass): an abandoned marker
\* blocks for 4 hours at most.
C3_StaleMarkerReclaimed ==
  [][ \A j \in JobIds :
        /\ ( /\ pc[j] = "stat"
             /\ pc'[j] # "stat"
             /\ lock.exists
             /\ now - lock.mtime > 4 * 3600 )
           => pc'[j] = "unlink" /\ age'[j] > 4 * 3600
        /\ (pc[j] = "unlink" /\ pc'[j] # "unlink")
           => pc'[j] = "write" /\ ~lock'.exists
        /\ (pc[j] = "write" /\ pc'[j] # "write")
           => pc'[j] = "call" /\ lock' = Marker(now, j) ]_vars

\* C3 happens: a job that judged the marker stale holds a fresh marker of
\* its own and is in capture_pass
C3_Witness ==
  \E j \in JobIds :
    /\ age[j] > 4 * 3600
    /\ pc[j] \in {"call", "run", "check"}
    /\ lock = Marker(now, j)

\* C4: a job body that could not acquire the lock is over: it never reaches
\* capture_pass, then or later, it is not fired again, and the step that
\* skips it changes neither the marker nor any fallback state.
C4_SkippedPassIsDropped ==
  [][ \A j \in JobIds :
        /\ (pc[j] # "skipped" /\ pc'[j] = "skipped")
           => /\ lock' = lock
              /\ fallback' = fallback
              /\ avail'[j] = "unchecked"
              /\ ret'[j] = "none"
        /\ pc[j] = "skipped"
           => /\ pc'[j] = "skipped"
              /\ avail'[j] = "unchecked"
              /\ ret'[j] = "none" ]_vars

\* C4 happens: a job was skipped, the capture that blocked it has ended and
\* released the lock, and the skipped job is still not run
C4_Witness ==
  \E j \in JobIds, k \in JobIds :
    /\ j # k
    /\ pc[j] = "skipped"
    /\ pc[k] = "done" /\ ret[k] \in {"true", "false"}
    /\ ~lock.exists
    /\ phase[SchedOf(j)] = "running"

\* C5: a job body that acquired the lock and has ended, whatever capture_pass
\* did (returned True, returned False, raised), has left no marker of its
\* own behind.
C5_LockReleasedAtJobEnd ==
  \A j \in JobIds : pc[j] = "done" => ~(lock.exists /\ lock.owner = j)

\* C5 happens: a job whose capture_pass raised has ended and the marker is gone
C5_Witness ==
  \E j \in JobIds : pc[j] = "done" /\ ret[j] = "raised" /\ ~lock.exists

\* C6: schedule_passes with dry_run = True and a non-empty event sequence
\* returns with no job armed and the trigger loop not started, reports each
\* event once, and neither the marker, nor any fallback state, nor the
\* output directories change in it or because of it later.
C6_DryRunTouchesNothing ==
  [][ \A s \in Scheds :
        (mode'[s] = "dry" /\ passes[s] # <<>>)
        => /\ phase'[s] = "returned"
           /\ dryLog'[s] = passes[s]
           /\ \A j \in JobsOf(s) : pc'[j] = "none" /\ avail'[j] = "unchecked"
           /\ fallback'[s] = EmptyMap
           /\ mode[s] # "dry"
              => lock' = lock /\ fallback' = fallback /\ outdirs' = outdirs ]_vars

\* C6 happens: a dry run over two events has returned
C6_Witness ==
  \E s \in Scheds :
    /\ mode[s] = "dry"
    /\ Len(passes[s]) = 2
    /\ dryLog[s] = passes[s]
    /\ phase[s] = "returned"

\* C7: after every sequence of _record_failure / _record_success calls,
\* _should_use_fallback(name) is false with 0 or 1 failures recorded for name
\* since its last success, true with 2 or more, and false right after a
\* _record_success(name).
C7_FallbackThreshold ==
  \A s \in Scheds, sat \in Sats :
    LET n == ConsecFailures(attempts[s], sat)
        h == attempts[s]
    IN  /\ n \in {0, 1} => ~ShouldUseFallback(fallback[s], sat)
        /\ n >= 2 => ShouldUseFallback(fallback[s], sat)
        /\ (h # <<>> /\ h[Len(h)] = <<sat, "ok">>) => ~ShouldUseFallback(fallback[s], sat)

\* C7 happens: three failures, then a success, and the fallback is off again
C7_Witness ==
  \E s \in Scheds, sat \in Sats :
    LET h == attempts[s]
    IN  /\ Len(h) = 4
        /\ h[1] = <<sat, "fail">> /\ h[2] = <<sat, "fail">> /\ h[3] = <<sat, "fail">>
        /\ h[4] = <<sat, "ok">>
        /\ ~ShouldUseFallback(fallback[s], sat)

\* C8: in a sequence of attempts on one runner, the command built for a
\* satellite uses the backup frequency and the fallback pipeline when its
\* last two capture attempts both failed, and the primary frequency and
\* pipeline when fewer than 2 failures are counted.
C8_FallbackParameters ==
  \A j \in JobIds :
    InFlight(j) =>
      LET n == ConsecFailures(attempts[SchedOf(j)], EventOf(j).sat)
      IN  /\ n >= 2 => /\ cmd[j].frequency = 137100000
                       /\ cmd[j].pipeline = "meteor_m2-x_lrpt_80k"
          /\ n < 2 => /\ cmd[j].frequency = 137900000
                      /\ cmd[j].pipeline = "meteor_m2-x_lrpt"

\* C8 happens: the third attempt for a satellite after two failed ones runs
\* with the backup frequency
C8_Witness ==
  \E j \in JobIds :
    /\ pc[j] = "run"
    /\ attempts[SchedOf(j)] = << <<EventOf(j).sat, "fail">>, <<EventOf(j).sat, "fail">> >>
    /\ cmd[j].frequency = 137100000

Recognized(files) == files \cap {"png", "jpg", "jpeg", "lrpt", "cadu"} # {}

\* C9: capture_pass returns True only when the tool exited with code 0 and
\* the output directory holds a recognized artifact; when the tool exits 0
\* and no recognized artifact is there, it returns False and the satellite's
\* failure counter goes up by one.
C9_SuccessNeedsArtifact ==
  [][ \A j \in JobIds :
        /\ ret'[j] = "true"
           => /\ tool'[j] = [kind |-> "exit", rc |-> 0]
              /\ Recognized(outdirs'[OutputDirName(EventOf(j))])
        /\ ( /\ pc[j] = "check"
             /\ pc'[j] # "check"
             /\ tool[j] = [kind |-> "exit", rc |-> 0]
             /\ ~Recognized(outdirs[OutputDirName(EventOf(j))]) )
           => /\ ret'[j] = "false"
              /\ Failures(fallback'[SchedOf(j)], EventOf(j).sat)
                   = Failures(fallback[SchedOf(j)], EventOf(j).sat) + 1 ]_vars

\* C9 happens: the tool exited 0 leaving only a log file, and the attempt
\* was counted as a failure
C9_Witness ==
  \E j \in JobIds :
    /\ ret[j] = "false"
    /\ tool[j] = [kind |-> "exit", rc |-> 0]
    /\ outdirs[OutputDirName(EventOf(j))] = {"log"}
    /\ Failures(fallback[SchedOf(j)], EventOf(j).sat) >= 1

\* C10: when the tool is not resolvable, capture_pass returns False at once:
\* no fallback counter changes, no output directory is created, the tool is
\* not run.
C10_MissingToolCostsNothing ==
  [][ \A j \in JobIds :
        avail'[j] = "no"
        => /\ ret'[j] = "false"
           /\ pc'[j] = "done"
           /\ tool'[j] = NoTool
           /\ cmd'[j] = NoCmd
           /\ avail[j] # "no" => fallback' = fallback /\ outdirs' = outdirs ]_vars

\* C10 happens: after a counted failure of a satellite, an attempt for it
\* found no tool, and the count is still 1 and no directory was made for it
C10_Witness ==
  \E j \in JobIds :
    /\ avail[j] = "no"
    /\ ret[j] = "false"
    /\ pc[j] = "done"
    /\ fallback[SchedOf(j)] = (EventOf(j).sat :> 1)
    /\ OutputDirName(EventOf(j)) \notin DOMAIN outdirs

\* C11: with the tool resolvable, a capture attempt ends with exactly one
\* update of the fallback state, for the event's satellite: a success (exit
\* code 0 and a recognized artifact) clears its counter and returns True;
\* every other ending (non-zero exit, no artifact, timeout, launch
\* exception) adds exactly one to the counter and returns False; no other
\* step changes a fallback state.
C11_EveryAttemptUpdatesFallback ==
  [][ /\ \A j \in JobIds :
           LET s     == SchedOf(j)
               sat   == EventOf(j).sat
               ended == ret[j] = "none" /\ ret'[j] # "none" /\ avail'[j] = "yes"
               ok    == /\ tool[j] = [kind |-> "exit", rc |-> 0]
                        /\ Recognized(outdirs[OutputDirName(EventOf(j))])
           IN  ended =>
                 /\ IF ok THEN /\ ret'[j] = "true"
                               /\ sat \notin DOMAIN fallback'[s]
                          ELSE /\ ret'[j] = "false"
                               /\ Failures(fallback'[s], sat) = Failures(fallback[s], sat) + 1
                 /\ \A x \in Sats \ {sat} :
                      Failures(fallback'[s], x) = Failures(fallback[s], x)
      /\ fallback' # fallback
           => \E j \in JobIds : ret[j] = "none" /\ ret'[j] # "none" /\ avail'[j] = "yes" ]_vars

\* C12: the failure counter of a satellite equals the number of its
\* consecutive recorded failures since its last success (or since the
\* start); a counter goes down only to zero and only by a success of that
\* satellite, and a call for one satellite leaves the counters of the
\* others as they were.
C12_CounterCountsConsecutiveFailures ==
  /\ [](\A s \in Scheds, sat \in Sats :
          Failures(fallback[s], sat) = ConsecFailures(attempts[s], sat))
  /\ [][ \A s \in Scheds, sat \in Sats :
           LET before == Failures(fallback[s], sat)
               after  == Failures(fallback'[s], sat)
               h      == attempts'[s]
           IN  /\ after < before => after = 0 /\ h[Len(h)] = <<sat, "ok">>
               /\ after # before => Len(h) = Len(attempts[s]) + 1 /\ h[Len(h)][1] = sat
               /\ after > before => after = before + 1 ]_vars

\* C12 happens: a success of A between failures of A, and a failure of B
\* among them: A counts the two failures since its success, B its one
C12_Witness ==
  /\ attempts[1] = << <<<<"A">>, "fail">>, <<<<"A">>, "ok">>, <<<<"A">>, "fail">>,
                      <<<<"B">>, "fail">>, <<<<"A">>, "fail">> >>
  /\ fallback[1] = (<<"A">> :> 2) @@ (<<"B">> :> 1)

\* the capture of job j failed and its job body is over
FailedAndOver(j) == pc[j] = "done" /\ ret[j] \in {"false", "raised"}

\* C13: a failed capture (tool missing, non-zero exit, no artifact, or an
\* exception out of capture_pass) does not stop the scheduler: the step that
\* ends it leaves the trigger loop running and the other jobs as they were;
\* the job body that ends leaves no marker of its own; and a job still armed
\* when the failed one is over, no other job body being under way, is
\* started and enters capture_pass, unless an interrupt abandons it (stated
\* for the jobs of scheduler 1, the one that has jobs in SpecLive).
C13_FailureDoesNotStopScheduler ==
  /\ [][ \A j \in JobIds :
           (ret[j] = "none" /\ ret'[j] \in {"false", "raised"})
           => /\ phase' = phase
              /\ \A k \in JobIds \ {j} : pc'[k] = pc[k] ]_vars
  /\ [](\A j \in JobIds : FailedAndOver(j) => ~(lock.exists /\ lock.owner = j))
  /\ \A k \in {1} \X (1..MaxJobs) :
       ( /\ pc[k] = "armed"
         /\ \E j \in JobIds : j[1] = k[1] /\ FailedAndOver(j)
         /\ \A m \in JobIds \ {k} : JobEnded(m) )
       ~> (pc[k] = "abandoned" \/ avail[k] # "unchecked")

\* C13 happens: the first job's capture failed with a non-zero exit and is
\* over, and the second job, started at its own later trigger time, holds
\* the lock and runs its capture
C13_Witness ==
  \E j \in JobIds, k \in JobIds :
    /\ j[1] = k[1] /\ j # k
    /\ FailedAndOver(j) /\ tool[j] = [kind |-> "exit", rc |-> 1]
    /\ pc[k] = "run"
    /\ lock = Marker(now, k)
    /\ now = EventOf(k).aos - 120
    /\ now > EventOf(j).aos - 120

(* claims on find_passes: the sampled elevations are read from query, the  *)
(* events from found                                                       *)
Sampled(n) == DOMAIN query.elev[n]
ElevAt(n, t) == query.elev[n][t]
Targets == DOMAIN query.elev
Emitted == { found.passes[i] : i \in 1..Len(found.passes) }
EmittedFor(n) == { i \in 1..Len(found.passes) : found.passes[i].sat = n }

\* the samples of n from a up to, not including, l are at or above the
\* horizon, the one before a (if any) and the one at l are below it
ClosedRun(n, a, l) ==
  /\ a \in Sampled(n) /\ l \in Sampled(n) /\ a < l
  /\ \A t \in Sampled(n) : (a <= t /\ t < l) => ElevAt(n, t) >= 0
  /\ ElevAt(n, l) < 0
  /\ \A t \in Sampled(n) :
       (t < a /\ \A u \in Sampled(n) : ~(t < u /\ u < a)) => ElevAt(n, t) < 0

\* the largest sampled elevation of n from a up to, not including, l
PeakOver(n, a, l) ==
  CHOOSE v \in { ElevAt(n, t) : t \in { u \in Sampled(n) : a <= u /\ u < l } } :
    \A t \in Sampled(n) : (a <= t /\ t < l) => ElevAt(n, t) <= v

\* the profile of n goes up through 0 at a and down through 0 at l, and
\* nowhere else
TwoCrossings(n, a, l) ==
  /\ ClosedRun(n, a, l)
  /\ \E t \in Sampled(n) : t < a
  /\ \A t \in Sampled(n) : (t < a \/ t > l) => ElevAt(n, t) < 0

\* C14: when the sampled elevations of a target cross 0 exactly twice
\* inside the horizon (up, then down) and peak at or above min_elev_deg
\* in between, find_passes returns exactly one event for that target, with
\* aos <= tca <= los and max_elevation_deg the largest sample between the
\* crossings.
C14_OnePassPerDoubleCrossing ==
  found.done =>
    \A n \in Targets : \A a \in Sampled(n), l \in Sampled(n) :
      (TwoCrossings(n, a, l) /\ PeakOver(n, a, l) >= query.min_elev)
      => /\ Cardinality(EmittedFor(n)) = 1
         /\ \A i \in EmittedFor(n) :
              LET e == found.passes[i]
              IN  /\ e.aos <= e.tca /\ e.tca <= e.los
                  /\ e.max_el = PeakOver(n, a, l)

\* C14 happens: a single target rises, peaks at its second sample above the
\* horizon and sets, and one event is returned with that peak
C14_Witness ==
  /\ found.done
  /\ Len(found.passes) = 1
  /\ \E n \in Targets : \E a \in Sampled(n), l \in Sampled(n) :
       /\ TwoCrossings(n, a, l)
       /\ ElevAt(n, a) = 10
       /\ found.passes[1].max_el = 30
       /\ found.passes[1].aos = a
       /\ found.passes[1].tca > a
       /\ found.passes[1].los = l

\* C15: every event returned has max_elevation_deg >= min_elev_deg; a pass
\* whose sampled peak is below min_elev_deg is not returned, and every pass
\* that sets inside the horizon with a peak at or above it is returned with
\* its own aos and los, also after a discarded one of the same target.
C15_ThresholdAndReset ==
  found.done =>
    /\ \A e \in Emitted : e.max_el >= query.min_elev
    /\ \A n \in Targets : \A a \in Sampled(n), l \in Sampled(n) :
         ClosedRun(n, a, l)
         => IF PeakOver(n, a, l) >= query.min_elev
              THEN \E e \in Emitted : e.sat = n /\ e.aos = a /\ e.los = l
              ELSE \A e \in Emitted : ~(e.sat = n /\ e.aos = a)

\* C15 happens: a pass peaking at 0 degrees is discarded, the next pass of
\* the same target peaks at 30 and is the one event returned
C15_Witness ==
  /\ found.done
  /\ query.order = << <<"A">> >>
  /\ query.min_elev = 10
  /\ \E a1 \in Sampled(<<"A">>), l1 \in Sampled(<<"A">>),
        a2 \in Sampled(<<"A">>), l2 \in Sampled(<<"A">>) :
       /\ ClosedRun(<<"A">>, a1, l1) /\ PeakOver(<<"A">>, a1, l1) = 0
       /\ l1 < a2
       /\ ClosedRun(<<"A">>, a2, l2) /\ PeakOver(<<"A">>, a2, l2) = 30
       /\ Len(found.passes) = 1
       /\ found.passes[1].aos = a2 /\ found.passes[1].los = l2

\* C16: a pass still open at the end of the horizon (the last sample at or
\* above 0, no sample below 0 after its aos) is not returned: every event
\* returned has a sample below 0 at its los, and no event starts in the run
\* of samples at or above 0 that reaches the last sample.
C16_OpenPassNotEmitted ==
  found.done =>
    /\ \A e \in Emitted : e.los \in Sampled(e.sat) /\ ElevAt(e.sat, e.los) < 0
    /\ \A n \in Targets : \A a \in Sampled(n) :
         (\A t \in Sampled(n) : t >= a => ElevAt(n, t) >= 0)
         => \A e \in Emitted : ~(e.sat = n /\ e.aos >= a)

\* C16 happens: the target is below the horizon, then at 30 degrees up to
\* the last sample, and nothing is returned
C16_Witness ==
  /\ found.done
  /\ found.passes = <<>>
  /\ query.order = << <<"A">> >>
  /\ \E a \in Sampled(<<"A">>) :
       /\ \E t \in Sampled(<<"A">>) : t < a
       /\ \A t \in Sampled(<<"A">>) : ElevAt(<<"A">>, t) = IF t < a THEN -5 ELSE 30

\* C17: the events returned are in non-decreasing order of aos, and the
\* same events are returned for every iteration order of the targets.
C17_SortedAndOrderFree ==
  found.done =>
    /\ \A i \in 1..Len(found.passes), k \in 1..Len(found.passes) :
         i < k => found.passes[i].aos <= found.passes[k].aos
    /\ \A o \in TargetOrders :
         Names(o) = Names(query.order)
         => LET other == FindPasses([query EXCEPT !.order = o])
            IN  /\ Len(other) = Len(found.passes)
                /\ { other[i] : i \in 1..Len(other) } = Emitted

\* C17 happens: A is iterated before B, the pass of B comes first in time,
\* and B's event is returned before A's
C17_Witness ==
  /\ found.done
  /\ query.order = << <<"A">>, <<"B">> >>
  /\ Len(found.passes) = 2
  /\ found.passes[1].sat = <<"B">>
  /\ found.passes[2].sat = <<"A">>
  /\ found.passes[1].aos < found.passes[2].aos

\* C18: every event returned has aos <= tca <= los and duration_sec equal
\* to los - aos in whole seconds, whatever the profile, the horizon and the
\* step.
C18_EventTimesConsistent ==
  found.done =>
    \A e \in Emitted :
      /\ e.aos <= e.tca /\ e.tca <= e.los
      /\ e.dur = e.los - e.aos
      /\ e.dur \in Nat

\* C18 happens: an event whose peak lies strictly between its aos and its
\* los, found with a start that is not a multiple of the step
C18_Witness ==
  /\ found.done
  /\ query.start = 45
  /\ \E e \in Emitted :
       /\ e.aos < e.tca /\ e.tca < e.los
       /\ e.dur = 2 * query.step

\* C19: schedule_passes with an empty event sequence returns at once for
\* dry_run True and for dry_run False: no job is armed, the trigger loop is
\* not started, and the marker, the fallback states, the output directories
\* and the dry-run report stay as they were, the executor not being called.
C19_EmptyScheduleIsNoOp ==
  /\ [][ \A s \in Scheds :
           (phase[s] = "new" /\ passes[s] = <<>> /\ phase'[s] # "new")
           => /\ phase'[s] = "returned"
              /\ mode'[s] \in {"dry", "real"}
              /\ pc' = pc /\ avail' = avail /\ ret' = ret
              /\ lock' = lock
              /\ fallback' = fallback /\ attempts' = attempts
              /\ outdirs' = outdirs
              /\ dryLog' = dryLog ]_vars
  /\ [](\A s \in Scheds :
          passes[s] = <<>>
          => /\ phase[s] \in {"new", "returned"}
             /\ \A j \in JobIds : j[1] = s => pc[j] = "none" /\ avail[j] = "unchecked")

\* C19 happens: two schedulers were given no event, one with dry_run True
\* and one with dry_run False, and both calls have returned
C19_Witness ==
  /\ passes[1] = <<>> /\ passes[2] = <<>>
  /\ mode[1] = "dry" /\ mode[2] = "real"
  /\ phase[1] = "returned" /\ phase[2] = "returned"
  /\ \A j \in JobIds : pc[j] = "none"

\* C20: schedule_passes with dry_run False arms one job per event, all of
\* them in the call and before the trigger loop runs; the body of a job
\* starts only from the armed state, so at most once, and only when the
\* clock has reached aos - 120 s.
C20_OneShotJobPerEvent ==
  [][ /\ \A s \in Scheds :
           (phase[s] = "new" /\ passes[s] # <<>> /\ mode'[s] = "real")
           => /\ phase'[s] = "running"
              /\ { j \in JobIds : j[1] = s /\ pc'[j] = "armed" } = {s} \X (1..Len(passes[s]))
      /\ \A j \in JobIds :
           /\ (pc[j] # "armed" /\ pc'[j] = "armed")
              => pc[j] = "none" /\ phase[j[1]] = "new"
           /\ (pc[j] # "exists" /\ pc'[j] = "exists")
              => /\ pc[j] = "armed"
                 /\ phase[j[1]] = "running"
                 /\ now >= passes[j[1]][j[2]].aos - 120 ]_vars

\* C20 happens: of the two jobs of a scheduler the first has run and ended,
\* the second, whose trigger time has not come, is still armed
C20_Witness ==
  \E s \in Scheds :
    /\ mode[s] = "real" /\ phase[s] = "running"
    /\ Len(passes[s]) = 2
    /\ pc[<<s, 1>>] = "done" /\ ret[<<s, 1>>] = "true"
    /\ pc[<<s, 2>>] = "armed"
    /\ now < passes[s][2].aos - 120

\* C21: two events that differ in satellite_name or in aos get different
\* job ids; so do two passes of one satellite.
C21_JobIdsDistinct ==
  (answer.done /\ ask.fn = "job_id")
  => ( (ask.e1.sat # ask.e2.sat \/ ask.e1.aos # ask.e2.aos)
       => answer.ids[1] # answer.ids[2] )

\* C21 happens: two passes of the satellite "A_", one at second 0 and one
\* a microsecond later, have got two ids
C21_Witness ==
  /\ answer.done /\ ask.fn = "job_id"
  /\ ask.e1.sat = <<"A", "_">> /\ ask.e2.sat = <<"A", "_">>
  /\ ask.e1.aos = [sec |-> 0, usec |-> 0]
  /\ ask.e2.aos = [sec |-> 0, usec |-> 1]
  /\ answer.ids[1] # answer.ids[2]

\* C22: a KeyboardInterrupt in the trigger loop stops the scheduler: every
\* job armed and not yet started is abandoned by that step, an abandoned
\* job never starts its body, no job of a stopped scheduler is armed, and
\* schedule_passes returns once the job bodies under way have ended.
C22_InterruptAbandonsPending ==
  /\ [][ /\ \A s \in Scheds :
              (phase[s] = "running" /\ phase'[s] # "running")
              => /\ phase'[s] = "stopped"
                 /\ \A j \in JobIds :
                      j[1] = s => pc'[j] = IF pc[j] = "armed" THEN "abandoned" ELSE pc[j]
         /\ \A j \in JobIds :
              pc[j] = "abandoned" => pc'[j] = "abandoned" /\ avail'[j] = "unchecked" ]_vars
  /\ [](\A j \in JobIds : phase[j[1]] \in {"stopped", "returned"} => pc[j] # "armed")
  /\ \A s \in Scheds : (phase[s] = "stopped") ~> (phase[s] = "returned")

\* C22 happens: the first job ran its capture, the interrupt came before
\* the second was started, the call has returned, and the second job has
\* not run although its trigger time has passed
C22_Witness ==
  /\ phase[1] = "returned" /\ mode[1] = "real"
  /\ Len(passes[1]) = 2
  /\ pc[<<1, 1>>] = "done" /\ ret[<<1, 1>>] = "true"
  /\ pc[<<1, 2>>] = "abandoned" /\ avail[<<1, 2>>] = "unchecked"
  /\ now >= passes[1][2].aos - 120

\* the trigger time of job j, aos - 120 s
FireTime(j) == passes[j[1]][j[2]].aos - 120
\* job j of a scheduler with events
IsJob(j) == j[2] <= Len(passes[j[1]])

Lrpt == <<"l", "r", "p", "t">>
Hrpt == <<"h", "r", "p", "t">>
AllBands == <<"a", "l", "l">>
\* a selection has been made
Selected(fn) == ask.fn = fn /\ answer.done

\* C24: for every catalog, the selection for band "all" is the union of the
\* selection for band "lrpt" and the selection for band "hrpt": the same
\* names, each with the element lines it has in the selection it comes from.
C24_AllIsUnionOfBands ==
  (Selected("select_targets") /\ ask.bands = AllBands) =>
    LET primary == SelectTargets(ask.tles, Lrpt)
        alternate == SelectTargets(ask.tles, Hrpt)
    IN  /\ DOMAIN answer.selected = DOMAIN primary \cup DOMAIN alternate
        /\ \A n \in DOMAIN primary : answer.selected[n] = primary[n]
        /\ \A n \in DOMAIN alternate : answer.selected[n] = alternate[n]
\* band "all" selected satellites of which one is only in the "lrpt" selection
\* and one only in the "hrpt" selection
C24_Witness ==
  /\ Selected("select_targets")
  /\ ask.bands = AllBands
  /\ \E n \in DOMAIN answer.selected : n \notin DOMAIN SelectTargets(ask.tles, Hrpt)
  /\ \E n \in DOMAIN answer.selected : n \notin DOMAIN SelectTargets(ask.tles, Lrpt)
  /\ \E n \in DOMAIN ask.tles : n \notin DOMAIN answer.selected

\* two characters are the same letter whatever their case
SameLetter(a, b) == LowerChar(a) = LowerChar(b)
\* pattern p occurs in name n when case is ignored
ContainsIgnoringCase(n, p) ==
  \E i \in 0..(Len(n) - Len(p)) : \A k \in 1..Len(p) : SameLetter(n[i + k], p[k])
\* the patterns configured for a band
BandPatterns(b) ==
  IF b = Lrpt THEN MeteorPatterns \cup NoaaPatterns
  ELSE IF b = Hrpt THEN MetopPatterns \cup NoaaPatterns
  ELSE MeteorPatterns \cup NoaaPatterns \cup MetopPatterns
\* the selection is exactly the entries of the catalog whose name holds one of
\* the patterns, each with the element lines the catalog gives it
IsFilterBy(patterns) ==
  /\ DOMAIN answer.selected =
       { n \in DOMAIN ask.tles : \E q \in patterns : ContainsIgnoringCase(n, q) }
  /\ \A n \in DOMAIN answer.selected : answer.selected[n] = ask.tles[n]

\* C25: select_targets (for the bands "lrpt", "hrpt" and "all", in any case)
\* and select_meteor_targets are pure filters: an entry is selected iff its
\* name, compared case-insensitively, contains one of the band's patterns as
\* a substring; a selected entry keeps its name and element lines; the
\* catalog given is not modified; when nothing matches the result is the
\* empty mapping.
C25_SelectionIsPureFilter ==
  /\ []((Selected("select_targets") /\ LowerBand(ask.bands) \in {Lrpt, Hrpt, AllBands}) =>
          IsFilterBy(BandPatterns(LowerBand(ask.bands))))
  /\ [](Selected("select_meteor_targets") => IsFilterBy(MeteorPatterns))
  /\ [][ask' = ask]_vars
\* a catalog of three entries of which the selection kept only one, whose
\* name is written in lower case
C25_Witness ==
  /\ Selected("select_targets")
  /\ ask.bands = Lrpt
  /\ Cardinality(DOMAIN ask.tles) = 3
  /\ DOMAIN answer.selected = { <<"n", "o", "a", "a", "-", "1", "5">> }
\* nothing of a non-empty catalog matched and the result is the empty mapping
C25_WitnessEmpty ==
  /\ Selected("select_meteor_targets")
  /\ DOMAIN ask.tles # {}
  /\ DOMAIN answer.selected = {}

\* main has run the list-passes command
Listed == ask.fn = "main" /\ answer.done /\ ~ask.version /\ ask.command = "list-passes"
\* the selection of targets was empty
NoTargets == DOMAIN SelectMeteorTargets(ask.tles) = {}

\* a catalog with one METEOR satellite
OneMeteor == [n \in {<<"M", "E", "T", "E", "O", "R", "-", "M", "2", " ", "3">>} |-> <<"1 a", "2 a">>]
\* the status of a list-passes run that has targets and finds no passes
NoPassesStatus == Main(FALSE, "list-passes", OneMeteor, <<>>).status

\* C26: when the target selection is empty, the run lists no pass and returns
\* the status of a run that finds no passes (success), not an error status.
\* The code returns 1 there and 0 for a run without passes.
C26_EmptySelectionIsNothingToDo ==
  (Listed /\ NoTargets) =>
    /\ answer.result.listed = <<>>
    /\ answer.result.status = NoPassesStatus
    /\ answer.result.status = ExitOk
\* what the code does: an empty selection lists nothing and returns 1, a run
\* with targets returns 0 whether it finds passes or not
C26_EmptySelectionReturnsOne ==
  Listed =>
    /\ NoTargets => (answer.result.listed = <<>> /\ answer.result.status = ExitNoTargets)
    /\ ~NoTargets => (answer.result.listed = ask.passlist /\ answer.result.status = ExitOk)
\* list-passes ran on a non-empty catalog without a METEOR satellite
C26_Witness == Listed /\ NoTargets /\ DOMAIN ask.tles # {}

\* C27: for every pass event, the timeout given to the tool is duration_sec +
\* 120 + 60 seconds, and the timeout of the synchronous invocation is
\* strictly greater, so the tool's own timeout runs out first.
C27_ToolTimeoutBeforeKill ==
  \A j \in JobIds :
    InFlight(j) =>
      /\ cmd[j].timeout = EventOf(j).dur + 120 + 60
      /\ cmd[j].wall > cmd[j].timeout
\* the tool runs for a pass of 300 s with 480 s of its own and 600 s allowed
\* by the caller, and for a pass of 600 s with 780 s and 900 s
C27_Witness ==
  /\ \E j \in JobIds :
       pc[j] = "run" /\ EventOf(j).dur = 300 /\ cmd[j].timeout = 480 /\ cmd[j].wall = 600
  /\ \E j \in JobIds :
       pc[j] = "done" /\ EventOf(j).dur = 600 /\ cmd[j].timeout = 780 /\ cmd[j].wall = 900

\* the instant of an event, microseconds included
AosOf(e) == <<e.aos, e.usec>>
\* the attempt of job j has made its output directory
HasOutputDir(j) == pc[j] \in {"run", "check"} \/ (pc[j] = "done" /\ cmd[j] # NoCmd)

\* C28: the output location of a capture is a function of (aos, name) that is
\* unique to the event: two events that differ in name or in aos never get
\* the same location, and the location of an attempt is fresh: when the
\* attempt starts it holds no recognized artifact of another event or of an
\* earlier run.
C28_OutputLocationUniqueAndFresh ==
  /\ [](\A j \in JobIds, k \in JobIds :
          ( /\ HasOutputDir(j)
            /\ HasOutputDir(k)
            /\ (EventOf(j).sat # EventOf(k).sat \/ AosOf(EventOf(j)) # AosOf(EventOf(k))) )
          => OutputDirName(EventOf(j)) # OutputDirName(EventOf(k)))
  /\ [][ \A j \in JobIds :
           (pc[j] = "call" /\ pc'[j] = "run")
           => ~Recognized(outdirs'[OutputDirName(EventOf(j))]) ]_vars
\* the two halves of C28 on their own
C28_Unique ==
  \A j \in JobIds, k \in JobIds :
    ( /\ HasOutputDir(j)
      /\ HasOutputDir(k)
      /\ (EventOf(j).sat # EventOf(k).sat \/ AosOf(EventOf(j)) # AosOf(EventOf(k))) )
    => OutputDirName(EventOf(j)) # OutputDirName(EventOf(k))
C28_Fresh ==
  [][ \A j \in JobIds :
        (pc[j] = "call" /\ pc'[j] = "run")
        => ~Recognized(outdirs'[OutputDirName(EventOf(j))]) ]_vars
\* a success without output of its own: the first run left an image, the
\* second run of the same event left only a log file beside it, and the
\* second attempt returned True
C28_StaleArtifactCounted ==
  \E j \in JobIds :
    /\ j[2] = 2
    /\ j \in JobsOf(SchedOf(j))
    /\ pc[j] = "done"
    /\ EventOf(j) = EventOf(<<j[1], 1>>)
    /\ ret[<<j[1], 1>>] = "true"
    /\ ret[j] = "true"
    /\ outdirs[OutputDirName(EventOf(j))] = {"png", "log"}

\* parse_tles is running or has returned
Parsing == ask.fn = "parse_tles" /\ answer # NoAnswer
Parsed == Parsing /\ answer.done
\* a line that begins with the mark of a first or a second element line
HasMark(l, m) == Len(l) >= 2 /\ l[1] = m /\ l[2] = " "
\* the three lines from position k (counted from 1) are a group
GroupAt(ls, k) == k + 2 <= Len(ls) /\ HasMark(ls[k + 1], "1") /\ HasMark(ls[k + 2], "2")
\* a catalog made only of well-formed groups
OnlyGroups(ls) ==
  /\ Len(ls) % 3 = 0
  /\ \A g \in 0..((Len(ls) \div 3) - 1) : GroupAt(ls, 3 * g + 1)
\* no two groups of the catalog bear the same name
NamesDiffer(ls) ==
  \A g \in 0..((Len(ls) \div 3) - 1), h \in 0..((Len(ls) \div 3) - 1) :
    g # h => ls[3 * g + 1] # ls[3 * h + 1]
\* every group of the catalog is in the result with its own element lines
EveryGroupKept ==
  \A g \in 0..((Len(answer.lines) \div 3) - 1) :
    LET k == 3 * g + 1
    IN  /\ answer.lines[k] \in DOMAIN answer.triples
        /\ answer.triples[answer.lines[k]] = <<answer.lines[k + 1], answer.lines[k + 2]>>
\* every entry of the result is three consecutive lines that are a group
EveryEntryIsGroup ==
  \A n \in DOMAIN answer.triples :
    \E k \in 1..Len(answer.lines) :
      /\ GroupAt(answer.lines, k)
      /\ answer.lines[k] = n
      /\ answer.triples[n] = <<answer.lines[k + 1], answer.lines[k + 2]>>
\* the scan looks at the three lines from its position: a group is recorded
\* and the scan moves on by three, anything else moves it on by one
ScanStepsAsStated ==
  (Parsing /\ answer'.i # answer.i) =>
    LET k == answer.i + 1
    IN  /\ k + 2 <= Len(answer.lines)
        /\ GroupAt(answer.lines, k) =>
             /\ answer'.i = answer.i + 3
             /\ answer'.triples[answer.lines[k]] = <<answer.lines[k + 1], answer.lines[k + 2]>>
             /\ \A n \in DOMAIN answer.triples \ {answer.lines[k]} :
                  answer'.triples[n] = answer.triples[n]
        /\ ~GroupAt(answer.lines, k) =>
             /\ answer'.i = answer.i + 1
             /\ answer'.triples = answer.triples

\* C29 as stated: parse_tles never aborts on malformed input: it scans the
\* non-blank lines in groups of three, records a group only when its second
\* line starts with "1 " and its third with "2 " and then advances by three,
\* otherwise by exactly one; every well-formed group of a catalog made only
\* of well-formed groups is in the result with its own two element lines;
\* every result entry is three consecutive non-blank lines with those marks.
C29_EveryGroupParsed ==
  /\ [][ScanStepsAsStated]_vars
  /\ [](Parsed => EveryEntryIsGroup)
  /\ []((Parsed /\ OnlyGroups(answer.lines)) => EveryGroupKept)
  /\ (ask.fn = "parse_tles" ~> Parsed)

\* C29, with the names of the groups distinct: parse_tles returns for every
\* text; the scan records a group and advances by three, or advances by one;
\* every entry of the result is three consecutive non-blank lines with the
\* marks "1 " and "2 "; and every group of a catalog made only of well-formed
\* groups with different names is in the result with its own element lines.
C29_EveryGroupParsedDistinctNames ==
  /\ [][ScanStepsAsStated]_vars
  /\ [](Parsed => EveryEntryIsGroup)
  /\ []((Parsed /\ OnlyGroups(answer.lines) /\ NamesDiffer(answer.lines)) => EveryGroupKept)
  /\ (ask.fn = "parse_tles" ~> Parsed)
\* a catalog of two groups with different names, an element line of which
\* is indented in the text, was parsed into two entries
C29_Witness ==
  /\ Parsed
  /\ \E k \in 1..Len(ask.text) : ask.text[k] = <<" ", "1", " ", "a">>
  /\ Len(answer.lines) = 6
  /\ OnlyGroups(answer.lines)
  /\ NamesDiffer(answer.lines)
  /\ Cardinality(DOMAIN answer.triples) = 2
\* a text with a line out of place was parsed: the scan skipped a line and
\* still found the group behind it
C29_WitnessSkip ==
  /\ Parsed
  /\ ~OnlyGroups(answer.lines)
  /\ ~GroupAt(answer.lines, 1)
  /\ GroupAt(answer.lines, 2)
  /\ answer.lines[2] \in DOMAIN answer.triples

\* fetch_tles has ended, by returning a text or by raising
Fetched == ask.fn = "fetch_tles" /\ answer.done
\* the call starts with a cached copy no older than max_age_hours
StartsFresh ==
  /\ fetch.pc = "idle"
  /\ cacheFile.exists
  /\ now - cacheFile.mtime <= ask.max_age_hours * 3600
\* the call ends in this step
Ends == ask.fn = "fetch_tles" /\ ~answer.done /\ answer'.done
\* the steps of fetch_tles, for the cached copies that satisfy usable: a
\* fresh copy is returned with no request made; a request that succeeds
\* returns the fetched text and leaves it in the cache; when the attempts
\* are used up the cached copy is returned; no more than backoff_attempts
\* requests are made
FetchSteps(usable(_)) ==
  /\ (StartsFresh /\ usable(cacheFile)) =>
       /\ answer' = [done |-> TRUE, kind |-> "text", text |-> cacheFile.text]
       /\ fetch'.tries = 0
       /\ cacheFile' = cacheFile
  /\ (Ends /\ fetch'.last = "ok" /\ fetch'.tries > fetch.tries) =>
       /\ answer'.kind = "text"
       /\ answer'.text = NewText
       /\ cacheFile'.exists
       /\ cacheFile'.text = answer'.text
  /\ (Ends /\ fetch.pc = "loop" /\ fetch'.tries = fetch.tries /\ cacheFile.exists
        /\ usable(cacheFile)) =>
       /\ answer'.kind = "text"
       /\ answer'.text = cacheFile.text
       /\ fetch.tries <= ask.backoff_attempts
  /\ (ask.fn = "fetch_tles" /\ fetch'.pc # "idle") => fetch'.tries <= ask.backoff_attempts
\* an error leaves fetch_tles only when no request succeeded and there is no
\* cached copy that satisfies usable
RaisesOnlyWithout(usable(_)) ==
  (Fetched /\ answer.kind = "raised") =>
    /\ fetch.last # "ok"
    /\ ~(cacheFile.exists /\ usable(cacheFile))
AnyCopy(f) == TRUE
ReadableCopy(f) == f.readable

\* C30 as stated: fetch_tles raises only when every network attempt failed
\* and no cached copy exists; whenever a cached copy exists it returns text:
\* a fresh cache without any network attempt, a stale cache after at most
\* backoff_attempts failed attempts; a successful attempt returns the fetched
\* text and stores it as the new cache; the function always terminates.
C30_FetchPrefersCache ==
  /\ []RaisesOnlyWithout(AnyCopy)
  /\ [][FetchSteps(AnyCopy)]_vars
  /\ (ask.fn = "fetch_tles" ~> answer.done)

\* C30, for cached copies that can be read: fetch_tles raises only when
\* every network attempt failed and there is no readable cached copy;
\* whenever a readable cached copy exists it returns text: a fresh one
\* without any network attempt, a stale one after at most backoff_attempts
\* failed attempts; a successful attempt returns the fetched text and stores
\* it as the new cache; the function always terminates.
C30_FetchPrefersReadableCache ==
  /\ []RaisesOnlyWithout(ReadableCopy)
  /\ [][FetchSteps(ReadableCopy)]_vars
  /\ (ask.fn = "fetch_tles" ~> answer.done)
\* a stale copy came back after three failed requests
C30_Witness ==
  /\ Fetched
  /\ answer = [done |-> TRUE, kind |-> "text", text |-> OldText]
  /\ fetch.tries = 3
  /\ ask.backoff_attempts = 3
  /\ cacheFile.mtime < 0 - ask.max_age_hours * 3600
\* a fresh copy came back with no request made
C30_WitnessFresh ==
  /\ Fetched
  /\ answer.kind = "text"
  /\ answer.text = OldText
  /\ fetch.tries = 0
  /\ ask.backoff_attempts > 0
\* the second request succeeded and its text is the cache
C30_WitnessFetched ==
  /\ Fetched
  /\ answer.kind = "text"
  /\ answer.text = NewText
  /\ fetch.tries = 2
  /\ cacheFile.text = NewText
\* no copy and no request answered: RuntimeError
C30_WitnessRaised ==
  /\ Fetched
  /\ answer.kind = "raised"
  /\ fetch.tries = ask.backoff_attempts
  /\ fetch.tries > 0
  /\ ~cacheFile.exists

\* load_config has returned a Config
Loaded == ask.fn = "load_config" /\ answer.done /\ ~answer.cfg.raised
\* the environment load_config reads: the env argument, or the environment
\* of the process when none (or an empty one) is given
EnvRead == IF ask.arg.given /\ ask.arg.env # EmptyEnv THEN ask.arg.env ELSE ask.os_environ
\* the number an environment string stands for
Denotes(str) == IF str = <<"4", "8">> THEN 48 ELSE 7
\* the file parsed to a mapping
FileRead == ask.path_given /\ ask.data.kind = "mapping"
\* the value the file gives to a setting, Absent when it gives none
FileSays(field) ==
  IF ~FileRead THEN Absent
  ELSE IF field = "lookahead_hours" THEN ask.data.map.lookahead
  ELSE IF field = "min_elevation_deg" THEN ask.data.map.min_elev
  ELSE IF ask.data.map.satdump.kind # "section" THEN Absent
  ELSE IF ask.data.map.satdump.gain # Absent THEN ask.data.map.satdump.gain
  ELSE ask.data.map.satdump.gain_db
\* the setting has the value of the first source that names it: the
\* environment, the file, the default
ByPrecedence(key, field, default) ==
  answer.cfg[field] =
    IF EnvRead[key].set THEN Denotes(EnvRead[key].s)
    ELSE IF FileSays(field) # Absent THEN FileSays(field).v
    ELSE default

\* C31: load_config applies the defaults, then the values of the config file
\* (when a path is given and it parses to a mapping), then the environment:
\* in every Config it returns, a setting present in the environment has the
\* environment's value, a setting present only in the file has the file's
\* value, and a setting named by neither has its default.
C31_SourcePrecedence ==
  Loaded =>
    /\ ByPrecedence("METEOR_AUTO_LOOKAHEAD_H", "lookahead_hours", 24)
    /\ ByPrecedence("METEOR_AUTO_MIN_ELEV_DEG", "min_elevation_deg", 20)
    /\ ByPrecedence("METEOR_AUTO_GAIN_DB", "gain_db", 40)
\* one Config with a setting from each source: the lookahead from the
\* environment although the file names it, the minimum elevation from the
\* file, the gain by default
C31_Witness ==
  /\ Loaded
  /\ ask.arg.given
  /\ ask.arg.env["METEOR_AUTO_LOOKAHEAD_H"] = EnvString(<<"4", "8">>)
  /\ FileSays("lookahead_hours") = FileNum(6)
  /\ FileSays("min_elevation_deg") = FileNum(30)
  /\ answer.cfg = [raised |-> FALSE, lookahead_hours |-> 48, min_elevation_deg |-> 30,
                   gain_db |-> 40]
\* load_config raised instead of returning: a value that cannot be cast
C31_WitnessRaised ==
  /\ ask.fn = "load_config"
  /\ answer.done
  /\ answer.cfg.raised
  /\ ask.data.kind # "error"

\* the capture of job k is in progress: its body holds the lock and
\* capture_pass has not returned
CaptureInProgress(k) == k \in JobIds /\ pc[k] \in {"call", "run", "check"}
\* job j deletes the marker in this step, by _release_lock or by the
\* reclaim of a marker judged stale
Deletes(j) ==
  /\ pc[j] \in {"unlink", "rel_unlink"}
  /\ pc'[j] # pc[j]
  /\ lock.exists
  /\ ~lock'.exists

\* C32: a job only ever removes a marker that it wrote itself: no step of
\* _release_lock or of the stale reclaim deletes the marker of a different
\* capture that is still in progress, of the same scheduler or of another
\* one sharing the lock path.
C32_OnlyOwnMarkerRemoved ==
  [][ \A j \in JobIds :
        Deletes(j) => (lock.owner = j \/ ~CaptureInProgress(lock.owner)) ]_vars

\* the marker is the one job k wrote, and k's capture_pass has not returned
HoldsMarker(k) == CaptureInProgress(k) /\ lock.exists /\ lock.owner = k
\* the time from the write of k's marker to the start of k's tool, as far
\* as it has elapsed
SetupTime(k) == IF pc[k] = "call" THEN now - lock.mtime ELSE launched[k] - lock.mtime
\* job j judges the marker stale in this step of _is_locked
JudgesStale(j) == pc[j] = "stat" /\ pc'[j] = "unlink"

EarlierLater(j, k) ==
  /\ j # k
  /\ SchedOf(j) = SchedOf(k)
  /\ IsJob(j) /\ IsJob(k)
  /\ FireTime(j) < FireTime(k)
\* the capture windows [aos - 120 s, los + 60 s] of j and k do not overlap
WindowsDisjoint(j, k) ==
  EventOf(j).aos + EventOf(j).dur + PostMarginSec < EventOf(k).aos - PreMarginSec
\* k's trigger comes after the time j's capture may take: the setup of
\* capture_pass and duration_sec + 300 s of the tool, counted from j's marker
AfterAllowance(j, k) ==
  FireTime(k) > lock.mtime + SetupTime(j) + EventOf(j).dur + SafetyMarginSec
\* k's job body starts in this step
Fires(k) == pc[k] = "armed" /\ pc'[k] = "exists"
\* k is skipped in this step because of the marker of j
SkippedBy(k, j) == pc[k] = "stat" /\ pc'[k] = "skipped" /\ lock.exists /\ lock.owner = j

EarliestPeak(n, a, l, tc) ==
  /\ tc \in Sampled(n)
  /\ a <= tc /\ tc < l
  /\ ElevAt(n, tc) = PeakOver(n, a, l)
  /\ \A t \in Sampled(n) : (a <= t /\ t < tc) => ElevAt(n, t) < ElevAt(n, tc)

\* C35: every event returned is one maximal run of samples of its target
\* at or above the horizon on the grid start + k * step_seconds: aos is the
\* first sample or follows a sample below 0, every sample from aos up to,
\* not including, los is at or above 0, los is the first sample after aos
\* below 0, tca is the earliest sample of the run with the largest
\* elevation (so tca < los), max_elevation_deg is that elevation, and two
\* events of one target never overlap in time.
C35_EventIsMaximalRun ==
  found.done =>
    /\ \A e \in Emitted :
         /\ e.sat \in Targets
         /\ \E k \in 0..((query.hours * SecPerHour) \div query.step) :
              e.aos = query.start + k * query.step
         /\ ClosedRun(e.sat, e.aos, e.los)
         /\ \A t \in Sampled(e.sat) : (e.aos < t /\ t < e.los) => ElevAt(e.sat, t) >= 0
         /\ EarliestPeak(e.sat, e.aos, e.los, e.tca)
         /\ e.max_el = ElevAt(e.sat, e.tca)
    /\ \A i \in 1..Len(found.passes), k \in 1..Len(found.passes) :
         (i # k /\ found.passes[i].sat = found.passes[k].sat)
           => \/ found.passes[i].los < found.passes[k].aos
              \/ found.passes[k].los < found.passes[i].aos
\* C35 happens: two events of one target are returned, and the first has a
\* later sample as high as the one at its tca
C35_Witness ==
  /\ found.done
  /\ \E e \in Emitted, f \in Emitted :
       /\ e.sat = f.sat
       /\ e.los < f.aos
       /\ \E t \in Sampled(e.sat) : e.tca < t /\ t < e.los /\ ElevAt(e.sat, t) = e.max_el
=============================================================================
